---- MODULE Spec2Model ----
(***************************************************************************)
(* Payment reconciliation and credit-balance ledger of sistema-cobro-agua  *)
(* (src/src/models_pagos.py, src/src/models_boletas.py and the routes of   *)
(* src/web/routes/boletas.py), as a state machine over the database        *)
(* tables boletas, pagos, pago_boletas, saldos_cliente, movimientos_saldo. *)
(* Money is in whole units; one customer owns every bill.                  *)
(***************************************************************************)
EXTENDS Integers, Sequences, FiniteSets, TLC

VARIABLES boletas, pagos, pago_boletas, saldo, movimientos, ultimo, sesiones

vars == <<boletas, pagos, pago_boletas, saldo, movimientos, ultimo, sesiones>>

\* ------------------------------------------------------------------ bounds
\* money ranges: a bill's total, a payment's amount, an adjustment's size, and
\* the balance up to which adjustments are made
MaxTotal == 2
MaxMonto == 2
MaxAjuste == 1
MaxSaldo == 2
\* the allocation engine alone: bills' outstanding balance, amount, credit
MaxSaldoAlloc == 2
MaxMontoAlloc == 3
MaxCreditoAlloc == 1
\* the credit operations alone: the size of an adjustment
MaxAjusteCredito == 3
\* adjustments in a row: how many movements are written
MaxMovimientos == 3
\* issuing bills: the sequence a period's numbering has come to, and the width
\* of the sequence in a display number
SecuenciaAlta == 9998
AnchoSecuencia == 4
\* consumption: the highest meter reading
MaxLectura == 95
\* generating readings: how many times each session runs ejecutar_generacion
MaxEjecuciones == 2
\* bulk sending: the bills of the period that can be sent
MaxEnviables == 3

\* the bills of the ledger, the ids payments take, and how many admin
\* adjustments are made
Boletas == {1, 2}
PagoIds == {1, 2}
Ajustes == {1}
\* the database sessions that run aprobar_pago at the same time
Sesiones == {1, 2}
\* the bills the allocation engine is run on alone
BoletasAlloc == {1, 2, 3}

\* ----------------------------------------------------------------- helpers
NULL == "NULL"

Min(a, b) == IF a <= b THEN a ELSE b

Max(a, b) == IF a >= b THEN a ELSE b

Rango(s) == {s[i] : i \in 1..Len(s)}

Pos(s, x) == CHOOSE i \in 1..Len(s) : s[i] = x

\* sequences over S without repetition, of every length
RECURSIVE SinRepetir(_)
SinRepetir(S) ==
    {<<>>} \cup UNION {{<<x>> \o t : t \in SinRepetir(S \ {x})} : x \in S}

Permutaciones(S) == {s \in SinRepetir(S) : Len(s) = Cardinality(S)}

\* billing periods (periodo_anio, periodo_mes) the bills are drawn from
Periodos == {<<2024, 2>>, <<2024, 3>>, <<2025, 1>>}

\* a bill row as crear_boleta leaves it: pagada = 0, no proof; the INSERT names
\* neither monto_pagado nor saldo_pendiente, which the payment code reads as
\* nothing paid and the whole total owed (boleta.get('saldo_pendiente', total))
BoletaNueva(total, periodo) ==
    [total |-> total, monto_pagado |-> 0, saldo_pendiente |-> total,
     pagada |-> 0, comprobante_path |-> NULL,
     periodo_anio |-> periodo[1], periodo_mes |-> periodo[2]]

\* ------------------------------------------------- the ordered bill query
\* the ORDER BY without periodo_anio
OrdenSoloMes(bs, fila, a, b) ==
    \/ bs[a].periodo_mes < bs[b].periodo_mes
    \/ /\ bs[a].periodo_mes = bs[b].periodo_mes
       /\ Pos(fila, a) < Pos(fila, b)

\* ORDER BY periodo_anio ASC, periodo_mes ASC; rows of one period come in the
\* order the table yields them (fila), which SQL leaves unspecified
OrdenPeriodo(bs, fila, a, b) ==
    \/ bs[a].periodo_anio < bs[b].periodo_anio
    \/ /\ bs[a].periodo_anio = bs[b].periodo_anio
       /\ bs[a].periodo_mes < bs[b].periodo_mes
    \/ /\ bs[a].periodo_anio = bs[b].periodo_anio
       /\ bs[a].periodo_mes = bs[b].periodo_mes
       /\ Pos(fila, a) < Pos(fila, b)

RECURSIVE Ordenar(_, _, _)
Ordenar(S, bs, fila) ==
    IF S = {} THEN <<>>
    ELSE LET m == CHOOSE x \in S : \A y \in S \ {x} : OrdenPeriodo(bs, fila, x, y)
         IN <<m>> \o Ordenar(S \ {m}, bs, fila)

\* SELECT id ... WHERE id = ANY(boletas_ids) AND saldo_pendiente > 0 ORDER BY ...
BoletasOrdenadas(bs, boletas_ids, fila) ==
    Ordenar({b \in Rango(boletas_ids) \cap DOMAIN bs : bs[b].saldo_pendiente > 0},
            bs, fila)

\* --------------------------------------------------- the allocation engine
\* the turn of the loop without "monto_restante -= monto_aplicar"
PasoAplicarSinDescontar(acc, bs, pago_id, boleta_id) ==
    LET saldo_boleta == bs[boleta_id].saldo_pendiente
        monto_aplicar == Min(acc.monto_restante, saldo_boleta)
        es_completo == monto_aplicar >= saldo_boleta
    IN [monto_restante |-> acc.monto_restante,
        monto_aplicado_total |-> acc.monto_aplicado_total + monto_aplicar,
        detalles |-> Append(acc.detalles,
                            [pago_id |-> pago_id, boleta_id |-> boleta_id,
                             monto_aplicado |-> monto_aplicar,
                             es_pago_completo |-> es_completo])]

\* one turn of the loop "for boleta in boletas_ordenadas" of
\* _aplicar_pago_a_boletas: min(monto_restante, saldo_pendiente) goes to the bill
PasoAplicar(acc, bs, pago_id, boleta_id) ==
    LET saldo_boleta == bs[boleta_id].saldo_pendiente
        monto_aplicar == Min(acc.monto_restante, saldo_boleta)
        es_completo == monto_aplicar >= saldo_boleta
    IN [monto_restante |-> acc.monto_restante - monto_aplicar,
        monto_aplicado_total |-> acc.monto_aplicado_total + monto_aplicar,
        detalles |-> Append(acc.detalles,
                            [pago_id |-> pago_id, boleta_id |-> boleta_id,
                             monto_aplicado |-> monto_aplicar,
                             es_pago_completo |-> es_completo])]

\* the loop, with its "if monto_restante <= 0: break"
RECURSIVE BucleAplicar(_, _, _, _)
BucleAplicar(lista, acc, bs, pago_id) ==
    IF lista = <<>> \/ acc.monto_restante <= 0 THEN acc
    ELSE BucleAplicar(Tail(lista), PasoAplicar(acc, bs, pago_id, Head(lista)),
                      bs, pago_id)

AcumuladorInicial(monto_disponible) ==
    [monto_restante |-> monto_disponible, monto_aplicado_total |-> 0,
     detalles |-> <<>>]

\* the overflow dropped
SaldoGeneradoNulo(monto_restante) == 0

\* saldo_generado = max(0, monto_restante)
SaldoGenerado(monto_restante) == Max(0, monto_restante)

\* _aplicar_pago_a_boletas: the rows it inserts into pago_boletas (detalles) and
\* the totals it returns
AplicarPagoABoletas(bs, pago_id, monto_disponible, boletas_ids, saldo_usado, fila) ==
    LET acc == BucleAplicar(BoletasOrdenadas(bs, boletas_ids, fila),
                            AcumuladorInicial(monto_disponible), bs, pago_id)
    IN [monto_aplicado |-> acc.monto_aplicado_total,
        saldo_generado |-> SaldoGenerado(acc.monto_restante),
        saldo_usado |-> saldo_usado,
        boletas_afectadas |-> [i \in 1..Len(acc.detalles) |-> acc.detalles[i].boleta_id],
        detalles |-> acc.detalles]

\* ------------------------------------------------------ the credit ledger
\* the database as one value: the five tables
DB == [boletas |-> boletas, pagos |-> pagos, pago_boletas |-> pago_boletas,
       saldo |-> saldo, movimientos |-> movimientos]

\* obtener_saldo_cliente: saldos_cliente.saldo_disponible, 0 without a row
ObtenerSaldoCliente(db) == db.saldo

\* the movement inserted without storing the new balance
RegistrarMovimientoSinSaldo(db, tipo, origen, monto, pago_id, boleta_id) ==
    LET saldo_anterior == ObtenerSaldoCliente(db)
        saldo_nuevo == saldo_anterior + monto
    IN [db EXCEPT
          !.movimientos = Append(@, [tipo |-> tipo, origen |-> origen,
                                     pago_id |-> pago_id, boleta_id |-> boleta_id,
                                     monto |-> monto,
                                     saldo_anterior |-> saldo_anterior,
                                     saldo_nuevo |-> saldo_nuevo])]

\* registrar_movimiento_saldo: reads the balance, inserts the movement with the
\* before/after snapshot and stores the new balance (actualizar_saldo_cliente)
RegistrarMovimientoSaldo(db, tipo, origen, monto, pago_id, boleta_id) ==
    LET saldo_anterior == ObtenerSaldoCliente(db)
        saldo_nuevo == saldo_anterior + monto
    IN [db EXCEPT
          !.movimientos = Append(@, [tipo |-> tipo, origen |-> origen,
                                     pago_id |-> pago_id, boleta_id |-> boleta_id,
                                     monto |-> monto,
                                     saldo_anterior |-> saldo_anterior,
                                     saldo_nuevo |-> saldo_nuevo]),
          !.saldo = saldo_nuevo]

\* ------------------------------------------------- payment lifecycle
\* the value of CURRENT_DATE
Hoy == "CURRENT_DATE"

\* a row of pagos as the INSERTs leave it (monto_aplicado, monto_a_favor default
\* 0); the INSERTs that create the payment approved name fecha_procesamiento
PagoNuevo(monto_total, estado, comprobante_path, procesado_por) ==
    [estado |-> estado, monto_total |-> monto_total, monto_aplicado |-> 0,
     monto_a_favor |-> 0, comprobante_path |-> comprobante_path,
     procesado_por |-> procesado_por, motivo_rechazo |-> NULL,
     fecha_procesamiento |-> IF estado = "aprobado" THEN Hoy ELSE NULL]

\* the mark that also books the bill as paid
MarcarEnRevisionYPagar(bs, boleta_id, comprobante_path) ==
    IF boleta_id \in DOMAIN bs /\ bs[boleta_id].pagada = 0
    THEN [bs EXCEPT ![boleta_id].pagada = 1,
                    ![boleta_id].comprobante_path = comprobante_path,
                    ![boleta_id].monto_pagado = bs[boleta_id].total,
                    ![boleta_id].saldo_pendiente = 0]
    ELSE bs

\* UPDATE boletas SET pagada = 1, comprobante_path = %s WHERE id = %s AND pagada = 0
MarcarEnRevision(bs, boleta_id, comprobante_path) ==
    IF boleta_id \in DOMAIN bs /\ bs[boleta_id].pagada = 0
    THEN [bs EXCEPT ![boleta_id].pagada = 1,
                    ![boleta_id].comprobante_path = comprobante_path]
    ELSE bs

RECURSIVE MarcarTodasEnRevision(_, _, _)
MarcarTodasEnRevision(bs, lista, comprobante_path) ==
    IF lista = <<>> THEN bs
    ELSE MarcarTodasEnRevision(MarcarEnRevision(bs, Head(lista), comprobante_path),
                               Tail(lista), comprobante_path)

\* registrar_pago: the payment row, its allocation rows, the bills marked in review
RegistrarPago(db, monto_total, boletas_ids, comprobante_path, usar_saldo, fila) ==
    LET saldo_disponible == IF usar_saldo THEN ObtenerSaldoCliente(db) ELSE 0
        monto_disponible == monto_total + saldo_disponible
        estado == IF comprobante_path # NULL THEN "en_revision" ELSE "pendiente"
        pago_id == Len(db.pagos) + 1
        resultado == AplicarPagoABoletas(db.boletas, pago_id, monto_disponible,
                                         boletas_ids, saldo_disponible, fila)
        pago == [PagoNuevo(monto_total, estado, comprobante_path, NULL) EXCEPT
                    !.monto_aplicado = resultado.monto_aplicado,
                    !.monto_a_favor = resultado.saldo_generado]
    IN [db EXCEPT
          !.pagos = Append(@, pago),
          !.pago_boletas = @ \o resultado.detalles,
          !.boletas = MarcarTodasEnRevision(@, resultado.boletas_afectadas,
                                            comprobante_path)]

\* the UPDATE that leaves a partly paid bill in review
AprobarAplicacionQuedaEnRevision(bs, app) ==
    IF app.boleta_id \notin DOMAIN bs THEN bs
    ELSE LET b == bs[app.boleta_id]
             monto == app.monto_aplicado
         IN [bs EXCEPT ![app.boleta_id] =
                [b EXCEPT !.monto_pagado = b.monto_pagado + monto,
                          !.saldo_pendiente = b.saldo_pendiente - monto,
                          !.pagada = IF b.saldo_pendiente - monto <= 0 THEN 2 ELSE @]]

\* the UPDATE of aprobar_pago for one allocation: the CASE reads the row as it
\* was before the UPDATE
AprobarAplicacion(bs, app) ==
    IF app.boleta_id \notin DOMAIN bs THEN bs
    ELSE LET b == bs[app.boleta_id]
             monto == app.monto_aplicado
         IN [bs EXCEPT ![app.boleta_id] =
                [b EXCEPT !.monto_pagado = b.monto_pagado + monto,
                          !.saldo_pendiente = b.saldo_pendiente - monto,
                          !.pagada = IF b.saldo_pendiente - monto <= 0 THEN 2 ELSE 0]]

RECURSIVE AprobarAplicaciones(_, _)
AprobarAplicaciones(bs, aplicaciones) ==
    IF aplicaciones = <<>> THEN bs
    ELSE AprobarAplicaciones(AprobarAplicacion(bs, Head(aplicaciones)),
                             Tail(aplicaciones))

\* SELECT * FROM pago_boletas WHERE pago_id = %s
AplicacionesDe(db, pago_id) ==
    SelectSeq(db.pago_boletas, LAMBDA r : r.pago_id = pago_id)

\* the SELECT without "AND estado = 'en_revision'"
PagoExiste(db, pago_id) == pago_id \in 1..Len(db.pagos)

\* SELECT * FROM pagos WHERE id = %s AND estado = 'en_revision'
PagoEnRevision(db, pago_id) ==
    pago_id \in 1..Len(db.pagos) /\ db.pagos[pago_id].estado = "en_revision"

\* aprobar_pago after its guard: bills updated, the overflow credited, the
\* payment approved
AprobarPagoCuerpo(db, pago_id, usuario_id) ==
    LET pago == db.pagos[pago_id]
        d1 == [db EXCEPT !.boletas = AprobarAplicaciones(@, AplicacionesDe(db, pago_id))]
        d2 == IF pago.monto_a_favor > 0
              THEN RegistrarMovimientoSaldo(d1, "ingreso", "excedente_pago",
                                            pago.monto_a_favor, pago_id, 0)
              ELSE d1
    IN [d2 EXCEPT !.pagos[pago_id].estado = "aprobado",
                  !.pagos[pago_id].fecha_procesamiento = Hoy,
                  !.pagos[pago_id].procesado_por = usuario_id]

\* aprobar_pago: (exito, database after)
AprobarPago(db, pago_id, usuario_id) ==
    IF ~PagoEnRevision(db, pago_id) THEN [ok |-> FALSE, db |-> db]
    ELSE [ok |-> TRUE, db |-> AprobarPagoCuerpo(db, pago_id, usuario_id)]

\* the COUNT(*) without "AND p.estado = 'en_revision'"
OtrosDeCualquierEstado(db, boleta_id, pago_id) ==
    Cardinality({i \in 1..Len(db.pago_boletas) :
        /\ db.pago_boletas[i].boleta_id = boleta_id
        /\ db.pago_boletas[i].pago_id # pago_id})

\* the COUNT(*) of rechazar_pago: other payments in review holding the bill
OtrosEnRevision(db, boleta_id, pago_id) ==
    Cardinality({i \in 1..Len(db.pago_boletas) :
        /\ db.pago_boletas[i].boleta_id = boleta_id
        /\ db.pago_boletas[i].pago_id # pago_id
        /\ db.pagos[db.pago_boletas[i].pago_id].estado = "en_revision"})

\* the revert without the COUNT(*) of other payments in review
RevertirBoletaSinMirarOtros(db, bs, boleta_id, pago_id) ==
    IF boleta_id \in DOMAIN bs /\ bs[boleta_id].pagada = 1
    THEN [bs EXCEPT ![boleta_id].pagada = 0, ![boleta_id].comprobante_path = NULL]
    ELSE bs

\* UPDATE boletas SET pagada = 0, comprobante_path = NULL WHERE id = %s AND pagada = 1
RevertirBoleta(db, bs, boleta_id, pago_id) ==
    IF /\ OtrosEnRevision(db, boleta_id, pago_id) = 0
       /\ boleta_id \in DOMAIN bs
       /\ bs[boleta_id].pagada = 1
    THEN [bs EXCEPT ![boleta_id].pagada = 0, ![boleta_id].comprobante_path = NULL]
    ELSE bs

RECURSIVE RevertirBoletas(_, _, _, _)
RevertirBoletas(db, bs, aplicaciones, pago_id) ==
    IF aplicaciones = <<>> THEN bs
    ELSE RevertirBoletas(db, RevertirBoleta(db, bs, Head(aplicaciones).boleta_id, pago_id),
                         Tail(aplicaciones), pago_id)

\* rechazar_pago: (exito, database after)
RechazarPago(db, pago_id, motivo, usuario_id) ==
    IF ~PagoEnRevision(db, pago_id) THEN [ok |-> FALSE, db |-> db]
    ELSE [ok |-> TRUE,
          db |-> [db EXCEPT
                    !.boletas = RevertirBoletas(db, @, AplicacionesDe(db, pago_id), pago_id),
                    !.pagos[pago_id].estado = "rechazado",
                    !.pagos[pago_id].fecha_procesamiento = Hoy,
                    !.pagos[pago_id].procesado_por = usuario_id,
                    !.pagos[pago_id].motivo_rechazo = motivo]]

\* ------------------------------------------- direct and credit payments
\* the UPDATE of registrar_pago_directo and usar_saldo_en_boletas for one bill
PagarBoleta(bs, boleta_id, monto_aplicar, es_completo, comprobante_path) ==
    LET b == bs[boleta_id]
    IN [bs EXCEPT ![boleta_id] =
           [b EXCEPT !.monto_pagado = b.monto_pagado + monto_aplicar,
                     !.saldo_pendiente = b.saldo_pendiente - monto_aplicar,
                     !.pagada = IF es_completo THEN 2 ELSE 0,
                     !.comprobante_path = IF comprobante_path # NULL
                                          THEN comprobante_path ELSE @]]

\* the turn that marks the bill settled whatever it paid
PasoPagoDirectoSiempreCompleto(acc, filas, pago_id, boleta_id, comprobante_path) ==
    LET saldo_boleta == filas[boleta_id].saldo_pendiente
        monto_aplicar == Min(acc.monto_restante, saldo_boleta)
        es_completo == TRUE
    IN [monto_restante |-> acc.monto_restante - monto_aplicar,
        monto_aplicado_total |-> acc.monto_aplicado_total + monto_aplicar,
        detalles |-> Append(acc.detalles,
                            [pago_id |-> pago_id, boleta_id |-> boleta_id,
                             monto_aplicado |-> monto_aplicar,
                             es_pago_completo |-> es_completo]),
        boletas |-> PagarBoleta(acc.boletas, boleta_id, monto_aplicar, es_completo,
                                comprobante_path)]

\* one turn of the loop of registrar_pago_directo; saldo_pendiente is read from
\* the rows fetched before the loop (filas)
PasoPagoDirecto(acc, filas, pago_id, boleta_id, comprobante_path) ==
    LET saldo_boleta == filas[boleta_id].saldo_pendiente
        monto_aplicar == Min(acc.monto_restante, saldo_boleta)
        es_completo == monto_aplicar >= saldo_boleta
    IN [monto_restante |-> acc.monto_restante - monto_aplicar,
        monto_aplicado_total |-> acc.monto_aplicado_total + monto_aplicar,
        detalles |-> Append(acc.detalles,
                            [pago_id |-> pago_id, boleta_id |-> boleta_id,
                             monto_aplicado |-> monto_aplicar,
                             es_pago_completo |-> es_completo]),
        boletas |-> PagarBoleta(acc.boletas, boleta_id, monto_aplicar, es_completo,
                                comprobante_path)]

RECURSIVE BuclePagoDirecto(_, _, _, _, _)
BuclePagoDirecto(lista, acc, filas, pago_id, comprobante_path) ==
    IF lista = <<>> \/ acc.monto_restante <= 0 THEN acc
    ELSE BuclePagoDirecto(Tail(lista),
                          PasoPagoDirecto(acc, filas, pago_id, Head(lista), comprobante_path),
                          filas, pago_id, comprobante_path)

\* registrar_pago_directo up to its conn.commit(): the payment is created approved,
\* the bills are paid, the overflow is credited
RegistrarPagoDirecto(db, monto_total, boletas_ids, usuario_id, comprobante_path, fila) ==
    LET pago_id == Len(db.pagos) + 1
        acc == BuclePagoDirecto(BoletasOrdenadas(db.boletas, boletas_ids, fila),
                   [monto_restante |-> monto_total, monto_aplicado_total |-> 0,
                    detalles |-> <<>>, boletas |-> db.boletas],
                   db.boletas, pago_id, comprobante_path)
        saldo_generado == SaldoGenerado(acc.monto_restante)
        pago == [PagoNuevo(monto_total, "aprobado", comprobante_path, usuario_id) EXCEPT
                    !.monto_aplicado = acc.monto_aplicado_total,
                    !.monto_a_favor = saldo_generado]
        d1 == [db EXCEPT !.pagos = Append(@, pago),
                         !.pago_boletas = @ \o acc.detalles,
                         !.boletas = acc.boletas]
    IN IF saldo_generado > 0
       THEN RegistrarMovimientoSaldo(d1, "ingreso", "excedente_pago", saldo_generado,
                                     pago_id, 0)
       ELSE d1

\* one turn of the loop of usar_saldo_en_boletas: the allocation row, the bill,
\* and the debit movement written through registrar_movimiento_saldo
PasoUsarSaldo(acc, filas, pago_id, boleta_id) ==
    LET saldo_boleta == filas[boleta_id].saldo_pendiente
        monto_aplicar == Min(acc.saldo_restante, saldo_boleta)
        es_completo == monto_aplicar >= saldo_boleta
        d1 == [acc.db EXCEPT
                 !.pago_boletas = Append(@, [pago_id |-> pago_id, boleta_id |-> boleta_id,
                                             monto_aplicado |-> monto_aplicar,
                                             es_pago_completo |-> es_completo]),
                 !.boletas = PagarBoleta(@, boleta_id, monto_aplicar, es_completo, NULL)]
    IN [saldo_restante |-> acc.saldo_restante - monto_aplicar,
        monto_usado |-> acc.monto_usado + monto_aplicar,
        db |-> RegistrarMovimientoSaldo(d1, "egreso", "aplicacion_boleta",
                                        0 - monto_aplicar, pago_id, boleta_id)]

\* the loop, cut after `vueltas` turns (Len(lista) for a run that is not cut)
RECURSIVE BucleUsarSaldo(_, _, _, _, _)
BucleUsarSaldo(lista, acc, filas, pago_id, vueltas) ==
    IF lista = <<>> \/ acc.saldo_restante <= 0 \/ vueltas = 0 THEN acc
    ELSE BucleUsarSaldo(Tail(lista), PasoUsarSaldo(acc, filas, pago_id, Head(lista)),
                        filas, pago_id, vueltas - 1)

\* usar_saldo_en_boletas after its guard and up to the end of `vueltas` turns
UsarSaldoCuerpo(db, boletas_ids, fila, vueltas) ==
    LET saldo_disponible == ObtenerSaldoCliente(db)
        pago_id == Len(db.pagos) + 1
        d0 == [db EXCEPT !.pagos = Append(@, PagoNuevo(0, "aprobado", NULL, NULL))]
        acc == BucleUsarSaldo(BoletasOrdenadas(db.boletas, boletas_ids, fila),
                   [saldo_restante |-> saldo_disponible, monto_usado |-> 0, db |-> d0],
                   db.boletas, pago_id, vueltas)
    IN [acc.db EXCEPT !.pagos[pago_id].monto_aplicado = acc.monto_usado]

\* the guard as "saldo_disponible < 0"
UsarSaldoEnBoletasSinCero(db, boletas_ids, fila) ==
    IF ObtenerSaldoCliente(db) < 0 THEN [ok |-> FALSE, db |-> db]
    ELSE [ok |-> TRUE, db |-> UsarSaldoCuerpo(db, boletas_ids, fila, Len(boletas_ids))]

\* usar_saldo_en_boletas: raises ValueError when there is no credit
UsarSaldoEnBoletas(db, boletas_ids, fila) ==
    IF ObtenerSaldoCliente(db) <= 0 THEN [ok |-> FALSE, db |-> db]
    ELSE [ok |-> TRUE, db |-> UsarSaldoCuerpo(db, boletas_ids, fila, Len(boletas_ids))]

\* the adjustment without "if nuevo_saldo < 0"
AjustarSaldoClienteSinGuarda(db, monto) ==
    [ok |-> TRUE,
     db |-> RegistrarMovimientoSaldo(db, "ajuste", "ajuste_admin", monto, 0, 0)]

\* ajustar_saldo_cliente: refused when the balance would become negative
AjustarSaldoCliente(db, monto) ==
    IF ObtenerSaldoCliente(db) + monto < 0 THEN [ok |-> FALSE, db |-> db]
    ELSE [ok |-> TRUE,
          db |-> RegistrarMovimientoSaldo(db, "ajuste", "ajuste_admin", monto, 0, 0)]

\* conn.rollback() of the operation's own connection: its writes to pagos,
\* pago_boletas and boletas are dropped; registrar_movimiento_saldo wrote and
\* committed movimientos_saldo and saldos_cliente on connections of its own
Rollback(db, d) == [db EXCEPT !.movimientos = d.movimientos, !.saldo = d.saldo]

\* ------------------------------------------------------------ the machine
Usuarios == {"admin"}

Motivos == {"comprobante ilegible"}

Comprobantes == {"c1"}

\* what the last call was and what it returned
Ultimo(op, pago_id, ok, usar_saldo, falla) ==
    [op |-> op, pago_id |-> pago_id, ok |-> ok, usar_saldo |-> usar_saldo,
     falla |-> falla]

Poner(d) ==
    /\ boletas' = d.boletas
    /\ pagos' = d.pagos
    /\ pago_boletas' = d.pago_boletas
    /\ saldo' = d.saldo
    /\ movimientos' = d.movimientos

\* a database session that runs nothing
SesionLibre ==
    [pc |-> "libre", pago_id |-> 0, usuario_id |-> NULL, monto_a_favor |-> 0,
     aplicaciones |-> <<>>, escritas |-> <<>>, saldo_anterior |-> 0,
     pago_escrito |-> FALSE, ok |-> FALSE]

\* the period of the bill with id b: later ids are later periods, across a
\* change of year
PeriodoDe(b) == IF b = 1 THEN <<2024, 12>> ELSE <<2025, b - 1>>

\* bills issued and unpaid, no payment yet, no credit
Init ==
    /\ boletas \in {bs \in [Boletas -> {BoletaNueva(t, PeriodoDe(b)) :
                                            t \in 1..MaxTotal, b \in Boletas}] :
                       \A b \in Boletas : <<bs[b].periodo_anio, bs[b].periodo_mes>> = PeriodoDe(b)}
    /\ pagos = <<>>
    /\ pago_boletas = <<>>
    /\ saldo = 0
    /\ movimientos = <<>>
    /\ ultimo = Ultimo("inicio", 0, TRUE, FALSE, FALSE)
    /\ sesiones = [s \in Sesiones |-> SesionLibre]

MaxPagos == Cardinality(PagoIds)

NumAjustes(movs) ==
    Cardinality({i \in 1..Len(movs) : movs[i].origen = "ajuste_admin"})

Listas == SinRepetir(Boletas)

\* the amounts of a payment: the callers refuse no negative amount
Montos == {0 - 1} \cup 1..MaxMonto

Filas == Permutaciones(Boletas)

\* registrar_pago, with or without proof, with or without usar_saldo
Submit ==
    /\ Len(pagos) < MaxPagos
    /\ \E monto \in Montos, ids \in Listas, c \in Comprobantes \cup {NULL},
          usar_saldo \in BOOLEAN, fila \in Filas :
          /\ Poner(RegistrarPago(DB, monto, ids, c, usar_saldo, fila))
          /\ ultimo' = Ultimo("registrar_pago", Len(pagos) + 1, TRUE, usar_saldo, FALSE)
          /\ UNCHANGED sesiones

\* registrar_pago_directo, as the admin routes call it (no proof document)
Directo ==
    /\ Len(pagos) < MaxPagos
    /\ \E monto \in Montos, ids \in Listas, u \in Usuarios, fila \in Filas :
          /\ Poner(RegistrarPagoDirecto(DB, monto, ids, u, NULL, fila))
          /\ ultimo' = Ultimo("registrar_pago_directo", Len(pagos) + 1, TRUE, FALSE, FALSE)
          /\ UNCHANGED sesiones

Aprobar ==
    \E p \in PagoIds, u \in Usuarios :
       LET r == AprobarPago(DB, p, u)
       IN /\ Poner(r.db)
          /\ ultimo' = Ultimo("aprobar_pago", p, r.ok, FALSE, FALSE)
          /\ UNCHANGED sesiones

Rechazar ==
    \E p \in PagoIds, m \in Motivos, u \in Usuarios :
       LET r == RechazarPago(DB, p, m, u)
       IN /\ Poner(r.db)
          /\ ultimo' = Ultimo("rechazar_pago", p, r.ok, FALSE, FALSE)
          /\ UNCHANGED sesiones

UsarSaldo ==
    /\ Len(pagos) < MaxPagos
    /\ \E ids \in Listas, fila \in Filas :
          LET r == UsarSaldoEnBoletas(DB, ids, fila)
          IN /\ Poner(r.db)
             /\ ultimo' = Ultimo("usar_saldo_en_boletas",
                                 IF r.ok THEN Len(pagos) + 1 ELSE 0, r.ok, TRUE, FALSE)
             /\ UNCHANGED sesiones

Ajustar ==
    /\ NumAjustes(movimientos) < Cardinality(Ajustes)
    /\ \E monto \in (0 - MaxAjuste)..MaxAjuste :
          /\ monto # 0
          /\ saldo + monto <= MaxSaldo
          /\ LET r == AjustarSaldoCliente(DB, monto)
             IN /\ Poner(r.db)
                /\ ultimo' = Ultimo("ajustar_saldo_cliente", 0, r.ok, FALSE, FALSE)
                /\ UNCHANGED sesiones

Next == Submit \/ Directo \/ Aprobar \/ Rechazar \/ UsarSaldo \/ Ajustar

Spec == Init /\ [][Next]_vars



\* ------------------------------------------- the admin mark-unpaid action
\* desmarcar_boleta_pagada: UPDATE boletas SET pagada = 0, fecha_pago = NULL,
\* metodo_pago = NULL WHERE id = %s, whatever the bill's state and balance;
\* returns rowcount > 0 (fecha_pago and metodo_pago are not columns of the model)
DesmarcarBoletaPagada(db, boleta_id) ==
    IF boleta_id \notin DOMAIN db.boletas THEN [ok |-> FALSE, db |-> db]
    ELSE [ok |-> TRUE, db |-> [db EXCEPT !.boletas[boleta_id].pagada = 0]]

Desmarcar ==
    \E b \in Boletas :
       LET r == DesmarcarBoletaPagada(DB, b)
       IN /\ Poner(r.db)
          /\ ultimo' = Ultimo("desmarcar_boleta_pagada", 0, r.ok, FALSE, FALSE)
          /\ UNCHANGED sesiones

\* the payment operations and the mark-unpaid action
NextMarca == Next \/ Desmarcar

SpecMarca == Init /\ [][NextMarca]_vars

\* ------------------------------------------------- operations that fail
\* A statement of the operation raises after the operation passed its guard:
\* the except branch rolls the operation's connection back. `antes` is a failure
\* before the first call of registrar_movimiento_saldo, otherwise the failure
\* comes after it (at the last UPDATE or at conn.commit()).
DirectoFalla ==
    /\ ~ultimo.falla
    /\ Len(pagos) < MaxPagos
    /\ \E monto \in Montos, ids \in Listas, u \in Usuarios, fila \in Filas,
          antes \in BOOLEAN :
          /\ Poner(IF antes THEN DB
                   ELSE Rollback(DB, RegistrarPagoDirecto(DB, monto, ids, u, NULL, fila)))
          /\ ultimo' = Ultimo("registrar_pago_directo", 0, FALSE, FALSE, TRUE)
          /\ UNCHANGED sesiones

AprobarFalla ==
    /\ ~ultimo.falla
    /\ \E p \in PagoIds, u \in Usuarios, antes \in BOOLEAN :
          /\ PagoEnRevision(DB, p)
          /\ Poner(IF antes THEN DB ELSE Rollback(DB, AprobarPagoCuerpo(DB, p, u)))
          /\ ultimo' = Ultimo("aprobar_pago", p, FALSE, FALSE, TRUE)
          /\ UNCHANGED sesiones

\* usar_saldo_en_boletas fails after `vueltas` turns of its loop
UsarSaldoFalla ==
    /\ ~ultimo.falla
    /\ Len(pagos) < MaxPagos
    /\ ObtenerSaldoCliente(DB) > 0
    /\ \E ids \in Listas, fila \in Filas :
          \E vueltas \in 0..Len(ids) :
             /\ Poner(Rollback(DB, UsarSaldoCuerpo(DB, ids, fila, vueltas)))
             /\ ultimo' = Ultimo("usar_saldo_en_boletas", 0, FALSE, TRUE, TRUE)
             /\ UNCHANGED sesiones

\* the operations, until one of them fails
NextFalla ==
    \/ ~ultimo.falla /\ Next
    \/ DirectoFalla
    \/ AprobarFalla
    \/ UsarSaldoFalla

SpecFalla == Init /\ [][NextFalla]_vars


\* --------------------------------- aprobar_pago in concurrent sessions
\* Each call of aprobar_pago runs on its own connection, statement by statement,
\* under PostgreSQL's default READ COMMITTED: a SELECT sees what is committed,
\* an UPDATE waits for the row lock another session holds and then applies to the
\* row as that session committed it, and the writes become visible at commit.

\* the bills as session s sees them: its own writes over the committed rows
Vista(s) ==
    [b \in DOMAIN boletas |->
        IF b \in DOMAIN sesiones[s].escritas THEN sesiones[s].escritas[b]
        ELSE boletas[b]]

\* the row lock on bill b is free for session s
BoletaLibre(s, b) ==
    \A t \in Sesiones \ {s} : b \notin DOMAIN sesiones[t].escritas

\* the row lock on the payment is free for session s
PagoLibre(s, pago_id) ==
    \A t \in Sesiones \ {s} :
        ~(sesiones[t].pago_escrito /\ sesiones[t].pago_id = pago_id)

SinCambioConc == UNCHANGED <<boletas, pagos, pago_boletas, saldo, movimientos, ultimo>>

\* SELECT * FROM pagos WHERE id = %s AND estado = 'en_revision'
AprobarSelectPago(s) ==
    /\ sesiones[s].pc = "libre"
    /\ \E p \in PagoIds, u \in Usuarios :
          sesiones' = [sesiones EXCEPT ![s] =
              IF PagoEnRevision(DB, p)
              THEN [@ EXCEPT !.pc = "aplicaciones", !.pago_id = p, !.usuario_id = u,
                             !.monto_a_favor = pagos[p].monto_a_favor]
              ELSE [@ EXCEPT !.pc = "fin", !.pago_id = p, !.usuario_id = u,
                             !.ok = FALSE]]
    /\ SinCambioConc

\* SELECT * FROM pago_boletas WHERE pago_id = %s
AprobarSelectAplicaciones(s) ==
    /\ sesiones[s].pc = "aplicaciones"
    /\ sesiones' = [sesiones EXCEPT
                      ![s].pc = "boletas",
                      ![s].aplicaciones = AplicacionesDe(DB, sesiones[s].pago_id)]
    /\ SinCambioConc

\* one UPDATE boletas of the loop
AprobarUpdateBoleta(s) ==
    /\ sesiones[s].pc = "boletas"
    /\ sesiones[s].aplicaciones # <<>>
    /\ LET app == Head(sesiones[s].aplicaciones)
           b == app.boleta_id
           fila == AprobarAplicacion(Vista(s), app)
       IN /\ BoletaLibre(s, b)
          /\ sesiones' = [sesiones EXCEPT
                ![s].aplicaciones = Tail(@),
                ![s].escritas =
                    IF b \in DOMAIN boletas
                    THEN [x \in DOMAIN @ \cup {b} |-> IF x = b THEN fila[b] ELSE @[x]]
                    ELSE @]
    /\ SinCambioConc

\* after the loop: "if monto_a_favor > 0", and the read of the balance that
\* registrar_movimiento_saldo starts with
AprobarLeerSaldo(s) ==
    /\ sesiones[s].pc = "boletas"
    /\ sesiones[s].aplicaciones = <<>>
    /\ sesiones' = [sesiones EXCEPT ![s] =
          IF @.monto_a_favor > 0
          THEN [@ EXCEPT !.pc = "movimiento", !.saldo_anterior = ObtenerSaldoCliente(DB)]
          ELSE [@ EXCEPT !.pc = "pago"]]
    /\ SinCambioConc

\* the rest of registrar_movimiento_saldo: the movement row and the new balance,
\* computed from the balance read before, committed on connections of their own
AprobarMovimiento(s) ==
    /\ sesiones[s].pc = "movimiento"
    /\ Poner(RegistrarMovimientoSaldo([DB EXCEPT !.saldo = sesiones[s].saldo_anterior],
                                      "ingreso", "excedente_pago",
                                      sesiones[s].monto_a_favor, sesiones[s].pago_id, 0))
    /\ sesiones' = [sesiones EXCEPT ![s].pc = "pago"]
    /\ UNCHANGED ultimo

\* UPDATE pagos SET estado = 'aprobado', fecha_procesamiento = CURRENT_DATE,
\* procesado_por = %s WHERE id = %s
AprobarUpdatePago(s) ==
    /\ sesiones[s].pc = "pago"
    /\ PagoLibre(s, sesiones[s].pago_id)
    /\ sesiones' = [sesiones EXCEPT ![s].pc = "commit", ![s].pago_escrito = TRUE]
    /\ SinCambioConc

\* conn.commit(); return True
AprobarCommit(s) ==
    /\ sesiones[s].pc = "commit"
    /\ boletas' = Vista(s)
    /\ pagos' = [pagos EXCEPT ![sesiones[s].pago_id].estado = "aprobado",
                              ![sesiones[s].pago_id].fecha_procesamiento = Hoy,
                              ![sesiones[s].pago_id].procesado_por = sesiones[s].usuario_id]
    /\ sesiones' = [sesiones EXCEPT ![s].pc = "fin", ![s].ok = TRUE,
                                    ![s].escritas = <<>>, ![s].pago_escrito = FALSE]
    /\ UNCHANGED <<pago_boletas, saldo, movimientos, ultimo>>

\* a customer submits one payment; sessions approve at any moment
SubmitConc == Len(pagos) = 0 /\ Submit

NextConc ==
    \/ SubmitConc
    \/ \E s \in Sesiones :
          \/ AprobarSelectPago(s)
          \/ AprobarSelectAplicaciones(s)
          \/ AprobarUpdateBoleta(s)
          \/ AprobarLeerSaldo(s)
          \/ AprobarMovimiento(s)
          \/ AprobarUpdatePago(s)
          \/ AprobarCommit(s)

SpecConc == Init /\ [][NextConc]_vars

\* ------------------------------------------ the allocation engine alone
\* what a call of the allocation received and what it returned
Llamada(op, monto, credito, ids, fila, monto_aplicado, saldo_generado, detalles) ==
    [op |-> op, monto |-> monto, credito |-> credito, ids |-> ids, fila |-> fila,
     monto_aplicado |-> monto_aplicado, saldo_generado |-> saldo_generado,
     detalles |-> detalles]

\* three bills of any period and any total, unpaid; a bill of total 0 owes nothing
InitAlloc ==
    /\ boletas \in [BoletasAlloc -> {BoletaNueva(t, p) :
                                        t \in 0..MaxSaldoAlloc, p \in Periodos}]
    /\ pagos = <<>>
    /\ pago_boletas = <<>>
    /\ saldo = 0
    /\ movimientos = <<>>
    /\ ultimo = Llamada("inicio", 0, 0, {}, <<>>, 0, 0, <<>>)
    /\ sesiones = [s \in Sesiones |-> SesionLibre]

\* _aplicar_pago_a_boletas as registrar_pago calls it: monto_disponible is the
\* amount plus the credit to use; the caller lists the bills of S in any order
\* (ids) and the table yields them in any order (fila)
LlamarAplicar ==
    /\ ultimo.op = "inicio"
    /\ \E monto \in 0..MaxMontoAlloc, credito \in 0..MaxCreditoAlloc,
          S \in SUBSET BoletasAlloc :
          \E ids \in Permutaciones(S), fila \in Permutaciones(S) :
             LET r == AplicarPagoABoletas(boletas, 1, monto + credito, ids, credito, fila)
             IN /\ pago_boletas' = pago_boletas \o r.detalles
                /\ ultimo' = Llamada("_aplicar_pago_a_boletas", monto, credito, S, fila,
                                     r.monto_aplicado, r.saldo_generado, r.detalles)
                /\ UNCHANGED <<boletas, pagos, saldo, movimientos, sesiones>>

\* registrar_pago_directo, whose loop allocates the amount alone
LlamarDirecto ==
    /\ ultimo.op = "inicio"
    /\ \E monto \in 0..MaxMontoAlloc, S \in SUBSET BoletasAlloc, u \in Usuarios :
          \E ids \in Permutaciones(S), fila \in Permutaciones(S) :
             LET d == RegistrarPagoDirecto(DB, monto, ids, u, NULL, fila)
             IN /\ Poner(d)
                /\ ultimo' = Llamada("registrar_pago_directo", monto, 0, S, fila,
                                     d.pagos[1].monto_aplicado, d.pagos[1].monto_a_favor,
                                     d.pago_boletas)
                /\ UNCHANGED sesiones

NextAlloc == LlamarAplicar \/ LlamarDirecto

SpecAlloc == InitAlloc /\ [][NextAlloc]_vars

\* -------------------------------------------- the credit operations alone
\* what a call of a credit operation received and whether it succeeded
LlamadaSaldo(op, ok, monto, ids, fila) ==
    [op |-> op, ok |-> ok, monto |-> monto, ids |-> ids, fila |-> fila]

\* ajustar_saldo_cliente once, which is how the customer comes to hold credit
AjustarCredito ==
    /\ ultimo.op = "inicio"
    /\ \E monto \in (0 - MaxAjusteCredito)..MaxAjusteCredito :
          LET r == AjustarSaldoCliente(DB, monto)
          IN /\ Poner(r.db)
             /\ ultimo' = LlamadaSaldo("ajustar_saldo_cliente", r.ok, monto, {}, <<>>)
             /\ UNCHANGED sesiones

\* usar_saldo_en_boletas once on the bills of S, listed in any order (ids) and
\* yielded by the table in any order (fila)
LlamarUsarSaldo ==
    /\ ultimo.op # "usar_saldo_en_boletas"
    /\ \E S \in SUBSET BoletasAlloc :
          \E ids \in Permutaciones(S), fila \in Permutaciones(S) :
             LET r == UsarSaldoEnBoletas(DB, ids, fila)
             IN /\ Poner(r.db)
                /\ ultimo' = LlamadaSaldo("usar_saldo_en_boletas", r.ok, 0, S, fila)
                /\ UNCHANGED sesiones

NextCredito == AjustarCredito \/ LlamarUsarSaldo

SpecCredito == InitAlloc /\ [][NextCredito]_vars

\* ------------------------------------------------- adjustments in a row
\* ajustar_saldo_cliente again and again, with amounts of either sign and zero
AjustarSeguido ==
    /\ Len(movimientos) < MaxMovimientos
    /\ \E monto \in (0 - MaxAjusteCredito)..MaxAjusteCredito :
          LET r == AjustarSaldoCliente(DB, monto)
          IN /\ Poner(r.db)
             /\ ultimo' = LlamadaSaldo("ajustar_saldo_cliente", r.ok, monto, {}, <<>>)
             /\ UNCHANGED sesiones

NextAjuste == AjustarSeguido

SpecAjuste == Init /\ [][NextAjuste]_vars

\* ------------------------- the credit balance in concurrent sessions
\* usar_saldo_en_boletas and ajustar_saldo_cliente statement by statement, each
\* call on a connection of its own; every call of obtener_saldo_cliente and of
\* registrar_movimiento_saldo opens, uses and commits yet another connection, so
\* what they read and write is the committed balance

\* a session that runs nothing, with the locals of both operations
SesionSaldoLibre ==
    [pc |-> "libre", monto |-> 0, lista |-> <<>>, filas |-> <<>>,
     saldo_restante |-> 0, monto_usado |-> 0, pago_id |-> 0,
     aplicaciones |-> <<>>, escritas |-> <<>>, saldo_anterior |-> 0,
     boleta_id |-> 0, monto_aplicar |-> 0, ok |-> FALSE]

InitConcSaldo ==
    /\ boletas \in {bs \in [Boletas -> {BoletaNueva(t, PeriodoDe(b)) :
                                            t \in 1..MaxTotal, b \in Boletas}] :
                       \A b \in Boletas : <<bs[b].periodo_anio, bs[b].periodo_mes>> = PeriodoDe(b)}
    /\ pagos = <<>>
    /\ pago_boletas = <<>>
    /\ saldo = 0
    /\ movimientos = <<>>
    /\ ultimo = Ultimo("inicio", 0, TRUE, FALSE, FALSE)
    /\ sesiones = [s \in Sesiones |-> SesionSaldoLibre]

\* the customer comes to hold credit before the sessions start
AbonoInicial ==
    /\ ultimo.op = "inicio"
    /\ \A s \in Sesiones : sesiones[s].pc = "libre"
    /\ \E monto \in 1..MaxAjusteCredito :
          /\ Poner(AjustarSaldoCliente(DB, monto).db)
          /\ ultimo' = Ultimo("ajustar_saldo_cliente", 0, TRUE, FALSE, FALSE)
          /\ UNCHANGED sesiones

\* usar_saldo_en_boletas: saldo_disponible = obtener_saldo_cliente(cliente_id)
\* and "if saldo_disponible <= 0: raise"
UsoLeerSaldo(s) ==
    /\ sesiones[s].pc = "libre"
    /\ sesiones' = [sesiones EXCEPT ![s] =
          IF ObtenerSaldoCliente(DB) <= 0
          THEN [@ EXCEPT !.pc = "fin", !.ok = FALSE]
          ELSE [@ EXCEPT !.pc = "insertar", !.saldo_restante = ObtenerSaldoCliente(DB)]]
    /\ SinCambioConc

\* INSERT INTO pagos ... RETURNING id, and the SELECT of the owing bills
UsoInsertarYSelect(s) ==
    /\ sesiones[s].pc = "insertar"
    /\ \E ids \in Listas, fila \in Filas :
          sesiones' = [sesiones EXCEPT ![s] =
              [@ EXCEPT !.pc = "bucle",
                        !.pago_id = 1 + Cardinality({t \in Sesiones : sesiones[t].pago_id # 0}),
                        !.lista = BoletasOrdenadas(boletas, ids, fila),
                        !.filas = boletas]]
    /\ SinCambioConc

\* one turn of the loop up to the call of registrar_movimiento_saldo: the INSERT
\* into pago_boletas, the UPDATE of the bill (which waits for the row lock), and
\* the read of the balance that registrar_movimiento_saldo starts with
UsoUpdateBoleta(s) ==
    /\ sesiones[s].pc = "bucle"
    /\ sesiones[s].lista # <<>>
    /\ sesiones[s].saldo_restante > 0
    /\ LET b == Head(sesiones[s].lista)
           saldo_boleta == sesiones[s].filas[b].saldo_pendiente
           monto_aplicar == Min(sesiones[s].saldo_restante, saldo_boleta)
           es_completo == monto_aplicar >= saldo_boleta
           fila == PagarBoleta(Vista(s), b, monto_aplicar, es_completo, NULL)
       IN /\ BoletaLibre(s, b)
          /\ sesiones' = [sesiones EXCEPT ![s] =
                [@ EXCEPT !.pc = "movimiento",
                          !.boleta_id = b,
                          !.monto_aplicar = monto_aplicar,
                          !.aplicaciones = Append(@, [pago_id |-> sesiones[s].pago_id,
                                                      boleta_id |-> b,
                                                      monto_aplicado |-> monto_aplicar,
                                                      es_pago_completo |-> es_completo]),
                          !.escritas = [x \in DOMAIN @ \cup {b} |->
                                           IF x = b THEN fila[b] ELSE @[x]],
                          !.saldo_anterior = ObtenerSaldoCliente(DB)]]
    /\ SinCambioConc

\* the rest of registrar_movimiento_saldo and of the turn
UsoMovimiento(s) ==
    /\ sesiones[s].pc = "movimiento"
    /\ Poner(RegistrarMovimientoSaldo([DB EXCEPT !.saldo = sesiones[s].saldo_anterior],
                                      "egreso", "aplicacion_boleta",
                                      0 - sesiones[s].monto_aplicar,
                                      sesiones[s].pago_id, sesiones[s].boleta_id))
    /\ sesiones' = [sesiones EXCEPT ![s] =
          [@ EXCEPT !.pc = "bucle",
                    !.lista = Tail(@),
                    !.saldo_restante = @ - sesiones[s].monto_aplicar,
                    !.monto_usado = @ + sesiones[s].monto_aplicar]]
    /\ UNCHANGED ultimo

\* after the loop: UPDATE pagos SET monto_aplicado, conn.commit()
UsoCommit(s) ==
    /\ sesiones[s].pc = "bucle"
    /\ sesiones[s].lista = <<>> \/ sesiones[s].saldo_restante <= 0
    /\ boletas' = Vista(s)
    /\ pagos' = [p \in DOMAIN pagos \cup {sesiones[s].pago_id} |->
                    IF p = sesiones[s].pago_id
                    THEN [PagoNuevo(0, "aprobado", NULL, NULL) EXCEPT
                             !.monto_aplicado = sesiones[s].monto_usado]
                    ELSE pagos[p]]
    /\ pago_boletas' = pago_boletas \o sesiones[s].aplicaciones
    /\ sesiones' = [sesiones EXCEPT ![s] =
          [@ EXCEPT !.pc = "fin", !.ok = TRUE, !.escritas = <<>>]]
    /\ UNCHANGED <<saldo, movimientos, ultimo>>

\* ajustar_saldo_cliente with a negative amount: saldo_actual =
\* obtener_saldo_cliente(cliente_id) and "if nuevo_saldo < 0: return False"
AjusteLeerSaldo(s) ==
    /\ sesiones[s].pc = "libre"
    /\ \E monto \in (0 - MaxAjusteCredito)..(0 - 1) :
          sesiones' = [sesiones EXCEPT ![s] =
              IF ObtenerSaldoCliente(DB) + monto < 0
              THEN [@ EXCEPT !.pc = "fin", !.ok = FALSE, !.monto = monto]
              ELSE [@ EXCEPT !.pc = "ajuste_leer", !.monto = monto]]
    /\ SinCambioConc

\* registrar_movimiento_saldo reads the balance again
AjusteMovLeer(s) ==
    /\ sesiones[s].pc = "ajuste_leer"
    /\ sesiones' = [sesiones EXCEPT ![s].pc = "ajuste_escribir",
                                    ![s].saldo_anterior = ObtenerSaldoCliente(DB)]
    /\ SinCambioConc

\* and writes the movement and the balance computed from what it read
AjusteMovEscribir(s) ==
    /\ sesiones[s].pc = "ajuste_escribir"
    /\ Poner(RegistrarMovimientoSaldo([DB EXCEPT !.saldo = sesiones[s].saldo_anterior],
                                      "ajuste", "ajuste_admin", sesiones[s].monto, 0, 0))
    /\ sesiones' = [sesiones EXCEPT ![s].pc = "fin", ![s].ok = TRUE]
    /\ UNCHANGED ultimo

NextConcSaldo ==
    \/ AbonoInicial
    \/ \E s \in Sesiones :
          \/ UsoLeerSaldo(s)
          \/ UsoInsertarYSelect(s)
          \/ UsoUpdateBoleta(s)
          \/ UsoMovimiento(s)
          \/ UsoCommit(s)
          \/ AjusteLeerSaldo(s)
          \/ AjusteMovLeer(s)
          \/ AjusteMovEscribir(s)

SpecConcSaldo == InitConcSaldo /\ [][NextConcSaldo]_vars

\* ------------------------------------------------------- issuing bills
\* In the specifications of this part `boletas` is the table in insertion order,
\* each row with the columns lectura_id and numero_boleta; a text is the
\* sequence of its characters.

\* the character of a decimal digit, and back
Digito(d) == <<"0", "1", "2", "3", "4", "5", "6", "7", "8", "9">>[d + 1]

ValorDigito(c) == CHOOSE d \in 0..9 : Digito(d) = c

\* the order of the characters a display number is made of
Codigo(c) ==
    CASE c = "-" -> 45
      [] c = "B" -> 66
      [] c = "L" -> 76
      [] c = "O" -> 79
      [] OTHER -> 48 + ValorDigito(c)

\* str(n) for n >= 0
RECURSIVE Digitos(_)
Digitos(n) ==
    IF n < 10 THEN <<Digito(n)>> ELSE Digitos(n \div 10) \o <<Digito(n % 10)>>

\* the padding of {n:0<ancho>d}: zeros on the left up to ancho, never a cut
RECURSIVE Rellenar(_, _)
Rellenar(s, ancho) == IF Len(s) >= ancho THEN s ELSE Rellenar(<<"0">> \o s, ancho)

\* f"BOL-{año}{mes:02d}-{numero:04d}"
FormatoNumero(anio, mes, numero) ==
    <<"B", "O", "L", "-">> \o Digitos(anio) \o Rellenar(Digitos(mes), 2)
        \o <<"-">> \o Rellenar(Digitos(numero), AnchoSecuencia)

\* texto.split('-')[-1]
RECURSIVE UltimoSegmento(_)
UltimoSegmento(texto) ==
    IF \A i \in 1..Len(texto) : texto[i] # "-" THEN texto
    ELSE UltimoSegmento(Tail(texto))

\* int(cifras)
RECURSIVE Entero(_)
Entero(cifras) ==
    IF cifras = <<>> THEN 0
    ELSE 10 * Entero(SubSeq(cifras, 1, Len(cifras) - 1))
            + ValorDigito(cifras[Len(cifras)])

\* a < b as texts, which is what ORDER BY numero_boleta compares
RECURSIVE MenorTexto(_, _)
MenorTexto(a, b) ==
    IF a = <<>> THEN b # <<>>
    ELSE IF b = <<>> THEN FALSE
    ELSE IF Codigo(Head(a)) # Codigo(Head(b)) THEN Codigo(Head(a)) < Codigo(Head(b))
    ELSE MenorTexto(Tail(a), Tail(b))

\* the rows of a period
DelPeriodo(tabla, anio, mes) ==
    {i \in 1..Len(tabla) : tabla[i].periodo_anio = anio /\ tabla[i].periodo_mes = mes}

\* the number taken from the highest number of the whole table
GenerarNumeroBoletaSinPeriodo(tabla, anio, mes) ==
    LET filas == 1..Len(tabla)
    IN IF filas = {} THEN FormatoNumero(anio, mes, 1)
       ELSE LET i == CHOOSE x \in filas : \A y \in filas :
                        ~MenorTexto(tabla[x].numero_boleta, tabla[y].numero_boleta)
            IN FormatoNumero(anio, mes,
                             Entero(UltimoSegmento(tabla[i].numero_boleta)) + 1)

\* generar_numero_boleta: SELECT numero_boleta ... WHERE periodo ... ORDER BY
\* numero_boleta DESC LIMIT 1, then the last segment plus one, or 1
GenerarNumeroBoleta(tabla, anio, mes) ==
    LET filas == DelPeriodo(tabla, anio, mes)
    IN IF filas = {} THEN FormatoNumero(anio, mes, 1)
       ELSE LET i == CHOOSE x \in filas : \A y \in filas :
                        ~MenorTexto(tabla[x].numero_boleta, tabla[y].numero_boleta)
            IN FormatoNumero(anio, mes,
                             Entero(UltimoSegmento(tabla[i].numero_boleta)) + 1)

\* the row crear_boleta inserts
BoletaEmitida(lectura_id, periodo, numero_boleta, total) ==
    [lectura_id |-> lectura_id, numero_boleta |-> numero_boleta,
     total |-> total, monto_pagado |-> 0, saldo_pendiente |-> total,
     pagada |-> 0, comprobante_path |-> NULL,
     periodo_anio |-> periodo[1], periodo_mes |-> periodo[2]]

\* the INSERT of crear_boleta with a given number: numero_boleta is UNIQUE, so a
\* number already in the table makes the INSERT raise
InsertarBoleta(tabla, lectura_id, periodo, numero_boleta) ==
    IF \E i \in 1..Len(tabla) : tabla[i].numero_boleta = numero_boleta
    THEN [ok |-> FALSE, tabla |-> tabla, numero_boleta |-> numero_boleta]
    ELSE [ok |-> TRUE,
          tabla |-> Append(tabla, BoletaEmitida(lectura_id, periodo, numero_boleta, 1)),
          numero_boleta |-> numero_boleta]

\* crear_boleta
CrearBoleta(tabla, lectura_id, periodo) ==
    InsertarBoleta(tabla, lectura_id, periodo,
                   GenerarNumeroBoleta(tabla, periodo[1], periodo[2]))

\* obtener_boleta_por_lectura: SELECT id FROM boletas WHERE lectura_id = %s
ObtenerBoletaPorLectura(tabla, lectura_id) ==
    \E i \in 1..Len(tabla) : tabla[i].lectura_id = lectura_id

\* the readings, three of June 2025 and one of July 2025
Lecturas == {1, 2, 3, 4}

PeriodoLectura(l) == IF l <= 3 THEN <<2025, 6>> ELSE <<2025, 7>>

\* the POST of the route crear: refuses a reading that has a bill
RutaCrear(tabla, lectura_id) ==
    IF ObtenerBoletaPorLectura(tabla, lectura_id)
    THEN [ok |-> FALSE, tabla |-> tabla, numero_boleta |-> <<>>]
    ELSE CrearBoleta(tabla, lectura_id, PeriodoLectura(lectura_id))

\* the loop of the route crear_masivo over the chosen readings
RECURSIVE RutaCrearMasivo(_, _)
RutaCrearMasivo(tabla, lecturas) ==
    IF lecturas = <<>> THEN tabla
    ELSE RutaCrearMasivo(RutaCrear(tabla, Head(lecturas)).tabla, Tail(lecturas))

\* what the last call of this part was and what it gave
LlamadaEmision(op, ok, lectura_id, numero_boleta) ==
    [op |-> op, ok |-> ok, lectura_id |-> lectura_id, numero_boleta |-> numero_boleta]

\* a session that runs nothing
SesionEmisionLibre ==
    [pc |-> "libre", lectura_id |-> 0, numero_boleta |-> <<>>, ok |-> FALSE]

\* no bill yet, or a June 2025 whose numbering has come to SecuenciaAlta
InitEmision ==
    /\ boletas \in {<<>>,
                    <<BoletaEmitida(0, <<2025, 6>>,
                                    FormatoNumero(2025, 6, SecuenciaAlta), 1)>>}
    /\ pagos = <<>>
    /\ pago_boletas = <<>>
    /\ saldo = 0
    /\ movimientos = <<>>
    /\ ultimo = LlamadaEmision("inicio", TRUE, 0, <<>>)
    /\ sesiones = [s \in Sesiones |-> SesionEmisionLibre]

SinCambioPagos == UNCHANGED <<pagos, pago_boletas, saldo, movimientos>>

Crear ==
    \E l \in Lecturas :
       LET r == RutaCrear(boletas, l)
       IN /\ boletas' = r.tabla
          /\ ultimo' = LlamadaEmision("crear", r.ok, l, r.numero_boleta)
          /\ SinCambioPagos
          /\ UNCHANGED sesiones

CrearMasivo ==
    \E lecturas \in SinRepetir(Lecturas) :
       /\ Len(lecturas) = 2
       /\ boletas' = RutaCrearMasivo(boletas, lecturas)
       /\ ultimo' = LlamadaEmision("crear_masivo", TRUE, 0, <<>>)
       /\ SinCambioPagos
       /\ UNCHANGED sesiones

\* generar_boleta_desde_lectura, which the automatic generation runs on every
\* reading without a bill: it calls crear_boleta(periodo_anio=...), a keyword
\* crear_boleta does not have (its parameter is periodo_año), so the call raises
\* TypeError, the except branch returns None and no bill is created
GeneracionAutomatica ==
    /\ \E l \in Lecturas : ~ObtenerBoletaPorLectura(boletas, l)
    /\ ultimo' = LlamadaEmision("generar_boleta_desde_lectura", FALSE, 0, <<>>)
    /\ SinCambioPagos
    /\ UNCHANGED <<boletas, sesiones>>

NextNumero == Crear \/ CrearMasivo \/ GeneracionAutomatica

SpecNumero == InitEmision /\ [][NextNumero]_vars

\* the route crear statement by statement in concurrent sessions; each call of
\* obtener_boleta_por_lectura and generar_numero_boleta runs on a connection of
\* its own and sees what is committed
EmisionVerificar(s) ==
    /\ sesiones[s].pc = "libre"
    /\ \E l \in Lecturas :
          sesiones' = [sesiones EXCEPT ![s] =
              IF ObtenerBoletaPorLectura(boletas, l)
              THEN [@ EXCEPT !.pc = "fin", !.lectura_id = l, !.ok = FALSE]
              ELSE [@ EXCEPT !.pc = "numero", !.lectura_id = l]]
    /\ SinCambioPagos
    /\ UNCHANGED <<boletas, ultimo>>

\* numero_boleta = generar_numero_boleta(periodo_año, periodo_mes)
EmisionGenerarNumero(s) ==
    /\ sesiones[s].pc = "numero"
    /\ LET periodo == PeriodoLectura(sesiones[s].lectura_id)
       IN sesiones' = [sesiones EXCEPT
                         ![s].pc = "insertar",
                         ![s].numero_boleta =
                             GenerarNumeroBoleta(boletas, periodo[1], periodo[2])]
    /\ SinCambioPagos
    /\ UNCHANGED <<boletas, ultimo>>

\* INSERT INTO boletas ... and conn.commit()
EmisionInsertar(s) ==
    /\ sesiones[s].pc = "insertar"
    /\ LET r == InsertarBoleta(boletas, sesiones[s].lectura_id,
                               PeriodoLectura(sesiones[s].lectura_id),
                               sesiones[s].numero_boleta)
       IN /\ boletas' = r.tabla
          /\ sesiones' = [sesiones EXCEPT ![s].pc = "fin", ![s].ok = r.ok]
    /\ SinCambioPagos
    /\ UNCHANGED ultimo

\* the request ends and the session takes another
EmisionTerminar(s) ==
    /\ sesiones[s].pc = "fin"
    /\ sesiones' = [sesiones EXCEPT ![s] = SesionEmisionLibre]
    /\ SinCambioPagos
    /\ UNCHANGED <<boletas, ultimo>>

NextEmision ==
    \/ GeneracionAutomatica
    \/ \E s \in Sesiones :
          \/ EmisionVerificar(s)
          \/ EmisionGenerarNumero(s)
          \/ EmisionInsertar(s)
          \/ EmisionTerminar(s)

SpecEmision == InitEmision /\ [][NextEmision]_vars

\* ----------------------------------------------------------- consumption
\* a reading that may be missing: <<>> for None, <<n>> for the reading n
Ninguna == <<>>

\* the difference of the readings as it comes
CalcularConsumoSinTope(lectura_actual, lectura_anterior) ==
    IF lectura_anterior = Ninguna THEN lectura_actual
    ELSE lectura_actual - lectura_anterior[1]

\* calcular_consumo
CalcularConsumo(lectura_actual, lectura_anterior) ==
    IF lectura_anterior = Ninguna THEN lectura_actual
    ELSE LET consumo == lectura_actual - lectura_anterior[1]
         IN Max(0, consumo)

LlamadaConsumo(op, lectura_actual, lectura_anterior, consumo) ==
    [op |-> op, lectura_actual |-> lectura_actual,
     lectura_anterior |-> lectura_anterior, consumo |-> consumo]

\* the readings a call is made with; lectura_m3 is an INTEGER column, which
\* holds negative numbers too
LecturasM3 == (0 - 1)..MaxLectura

InitConsumo ==
    /\ boletas = <<>>
    /\ pagos = <<>>
    /\ pago_boletas = <<>>
    /\ saldo = 0
    /\ movimientos = <<>>
    /\ sesiones = <<>>
    /\ \E actual \in LecturasM3, anterior \in {Ninguna} \cup {<<n>> : n \in LecturasM3} :
          ultimo = LlamadaConsumo("inicio", actual, anterior, 0)

LlamarCalcularConsumo ==
    /\ ultimo.op = "inicio"
    /\ ultimo' = LlamadaConsumo("calcular_consumo", ultimo.lectura_actual,
                                ultimo.lectura_anterior,
                                CalcularConsumo(ultimo.lectura_actual,
                                                ultimo.lectura_anterior))
    /\ UNCHANGED <<boletas, pagos, pago_boletas, saldo, movimientos, sesiones>>

NextConsumo == LlamarCalcularConsumo

SpecConsumo == InitConsumo /\ [][NextConsumo]_vars

\* ------------------------------------------------------- deleting a bill
\* what the DELETE of a bill does to the pago_boletas rows that name it. The
\* declaration of pago_boletas is in init_db.sql; the design lets a bill be
\* deleted whatever refers to it, so the rows either stay or go with the bill
ReglasBorrado == {"sin_referencia", "cascade"}

\* eliminar_boleta: DELETE FROM boletas WHERE id = %s, nothing looked at before;
\* returns rowcount > 0
EliminarBoleta(db, boleta_id, regla) ==
    IF boleta_id \notin DOMAIN db.boletas THEN [ok |-> FALSE, db |-> db]
    ELSE [ok |-> TRUE,
          db |-> [db EXCEPT
                    !.boletas = [b \in DOMAIN @ \ {boleta_id} |-> @[b]],
                    !.pago_boletas =
                        IF regla = "cascade"
                        THEN SelectSeq(@, LAMBDA r : r.boleta_id # boleta_id)
                        ELSE @]]

\* the route eliminar: obtener_boleta, then eliminar_boleta
Eliminar ==
    \E b \in Boletas, regla \in ReglasBorrado :
       LET r == EliminarBoleta(DB, b, regla)
       IN /\ Poner(r.db)
          /\ ultimo' = Ultimo("eliminar_boleta", 0, r.ok, FALSE, FALSE)
          /\ UNCHANGED sesiones

\* the payment operations and the deletion of bills
NextElimina == Next \/ Eliminar

SpecElimina == Init /\ [][NextElimina]_vars

\* ------------------- registrar_movimiento_saldo in concurrent sessions
\* Each call runs on a connection of its own; obtener_saldo_cliente and
\* actualizar_saldo_cliente open and close one more each, so the balance is read
\* and written outside the transaction that inserts the movement.

\* a session that runs nothing, with the arguments and locals of the call
SesionMovLibre ==
    [pc |-> "libre", tipo |-> NULL, origen |-> NULL, monto |-> 0,
     saldo_anterior |-> 0, saldo_nuevo |-> 0]

InitMovConc ==
    /\ boletas = <<>>
    /\ pagos = <<>>
    /\ pago_boletas = <<>>
    /\ saldo = 0
    /\ movimientos = <<>>
    /\ ultimo = Ultimo("inicio", 0, TRUE, FALSE, FALSE)
    /\ sesiones = [s \in Sesiones |-> SesionMovLibre]

\* a movement written before the sessions start: the customer's balance so far
MovimientoPrevio ==
    /\ movimientos = <<>>
    /\ \A s \in Sesiones : sesiones[s].pc = "libre"
    /\ \E monto \in 1..MaxAjusteCredito :
          Poner(RegistrarMovimientoSaldo(DB, "ajuste", "ajuste_admin", monto, 0, 0))
    /\ UNCHANGED <<ultimo, sesiones>>

\* saldo_anterior = obtener_saldo_cliente(cliente_id); saldo_nuevo = saldo_anterior + monto
MovLeerSaldo(s) ==
    /\ sesiones[s].pc = "libre"
    /\ \E monto \in ((0 - MaxAjusteCredito)..MaxAjusteCredito) \ {0} :
          sesiones' = [sesiones EXCEPT ![s] =
              [pc |-> "insertar",
               tipo |-> IF monto > 0 THEN "ingreso" ELSE "egreso",
               origen |-> IF monto > 0 THEN "excedente_pago" ELSE "aplicacion_boleta",
               monto |-> monto,
               saldo_anterior |-> ObtenerSaldoCliente(DB),
               saldo_nuevo |-> ObtenerSaldoCliente(DB) + monto]]
    /\ SinCambioConc

\* INSERT INTO movimientos_saldo ... RETURNING id, on the call's connection
MovInsertar(s) ==
    /\ sesiones[s].pc = "insertar"
    /\ sesiones' = [sesiones EXCEPT ![s].pc = "actualizar"]
    /\ SinCambioConc

\* actualizar_saldo_cliente(cliente_id, saldo_nuevo): the upsert, committed on
\* its own connection
MovActualizarSaldo(s) ==
    /\ sesiones[s].pc = "actualizar"
    /\ saldo' = sesiones[s].saldo_nuevo
    /\ sesiones' = [sesiones EXCEPT ![s].pc = "commit"]
    /\ UNCHANGED <<boletas, pagos, pago_boletas, movimientos, ultimo>>

\* conn.commit(): the movement row is in the log
MovCommit(s) ==
    /\ sesiones[s].pc = "commit"
    /\ movimientos' = Append(movimientos,
                             [tipo |-> sesiones[s].tipo, origen |-> sesiones[s].origen,
                              pago_id |-> 0, boleta_id |-> 0,
                              monto |-> sesiones[s].monto,
                              saldo_anterior |-> sesiones[s].saldo_anterior,
                              saldo_nuevo |-> sesiones[s].saldo_nuevo])
    /\ sesiones' = [sesiones EXCEPT ![s].pc = "fin"]
    /\ UNCHANGED <<boletas, pagos, pago_boletas, saldo, ultimo>>

NextMovConc ==
    \/ MovimientoPrevio
    \/ \E s \in Sesiones :
          \/ MovLeerSaldo(s)
          \/ MovInsertar(s)
          \/ MovActualizarSaldo(s)
          \/ MovCommit(s)

SpecMovConc == InitMovConc /\ [][NextMovConc]_vars

\* ------------------------------------------- generating missing readings
\* ejecutar_generacion statement by statement in two runs: session 1 is the job
\* of the scheduler (max_instances = 1, so one such run at a time), session 2 a
\* run an admin starts from the route ejecutar. In this specification the
\* variable movimientos holds the rows of the table lecturas for the target
\* period, and boletas the bills, of which the generation creates none.
Medidores == {1, 2}

\* a row of lecturas
Lectura(medidor_id, foto_nombre) ==
    [medidor_id |-> medidor_id, foto_nombre |-> foto_nombre]

\* obtener_medidores_sin_lectura: the active meters with no row of lecturas for
\* the period, in the order of the ORDER BY
RECURSIVE EnOrden(_)
EnOrden(S) ==
    IF S = {} THEN <<>>
    ELSE LET m == CHOOSE x \in S : \A y \in S : x <= y
         IN <<m>> \o EnOrden(S \ {m})

ObtenerMedidoresSinLectura(lecturas) ==
    EnOrden({m \in Medidores :
                ~\E i \in 1..Len(lecturas) : lecturas[i].medidor_id = m})

\* crear_lectura_automatica: INSERT INTO lecturas ... 'generacion_automatica'
CrearLecturaAutomatica(lecturas, medidor_id) ==
    Append(lecturas, Lectura(medidor_id, "generacion_automatica"))

\* a run that has not started
EjecucionLibre ==
    [pc |-> "libre", es_automatico |-> FALSE, solo_boletas |-> FALSE,
     medidores |-> <<>>, lecturas_creadas |-> 0, ejecuciones |-> 0]

\* some meters already have the reading of the period, taken by hand
InitGeneracion ==
    /\ boletas = <<>>
    /\ pagos = <<>>
    /\ pago_boletas = <<>>
    /\ saldo = 0
    /\ \E S \in SUBSET Medidores :
          movimientos = [i \in 1..Len(EnOrden(S)) |-> Lectura(EnOrden(S)[i], "foto.jpg")]
    /\ ultimo = Ultimo("inicio", 0, TRUE, FALSE, FALSE)
    /\ sesiones = [s \in Sesiones |-> EjecucionLibre]

SinCambioGeneracion == UNCHANGED <<boletas, pagos, pago_boletas, saldo, ultimo>>

\* ejecutar_generacion starts: the period, the log row, the configuration
GenIniciar(s) ==
    /\ sesiones[s].pc = "libre"
    /\ sesiones[s].ejecuciones < MaxEjecuciones
    /\ \E solo_boletas \in (IF s = 1 THEN {FALSE} ELSE BOOLEAN) :
          sesiones' = [sesiones EXCEPT ![s] =
              [@ EXCEPT !.pc = IF solo_boletas THEN "boletas" ELSE "medidores",
                        !.es_automatico = (s = 1),
                        !.solo_boletas = solo_boletas,
                        !.medidores = <<>>,
                        !.lecturas_creadas = 0,
                        !.ejecuciones = @ + 1]]
    /\ UNCHANGED movimientos
    /\ SinCambioGeneracion

\* medidores = obtener_medidores_sin_lectura(año, mes)
GenSelectMedidores(s) ==
    /\ sesiones[s].pc = "medidores"
    /\ sesiones' = [sesiones EXCEPT
                      ![s].pc = "lecturas",
                      ![s].medidores = ObtenerMedidoresSinLectura(movimientos)]
    /\ UNCHANGED movimientos
    /\ SinCambioGeneracion

\* one turn of "for medidor in medidores": the reading is inserted and committed
GenCrearLectura(s) ==
    /\ sesiones[s].pc = "lecturas"
    /\ sesiones[s].medidores # <<>>
    /\ movimientos' = CrearLecturaAutomatica(movimientos, Head(sesiones[s].medidores))
    /\ sesiones' = [sesiones EXCEPT ![s].medidores = Tail(@),
                                    ![s].lecturas_creadas = @ + 1]
    /\ SinCambioGeneracion

\* after the loop, PASO 2: generar_boleta_desde_lectura for every reading
\* without a bill, which creates none
GenBoletas(s) ==
    /\ \/ sesiones[s].pc = "lecturas" /\ sesiones[s].medidores = <<>>
       \/ sesiones[s].pc = "boletas"
    /\ sesiones' = [sesiones EXCEPT ![s].pc = "log"]
    /\ UNCHANGED movimientos
    /\ SinCambioGeneracion

\* actualizar_log_generacion and the return
GenTerminar(s) ==
    /\ sesiones[s].pc = "log"
    /\ sesiones' = [sesiones EXCEPT ![s].pc = "libre"]
    /\ UNCHANGED movimientos
    /\ SinCambioGeneracion

NextGeneracion ==
    \E s \in Sesiones :
       \/ GenIniciar(s)
       \/ GenSelectMedidores(s)
       \/ GenCrearLectura(s)
       \/ GenBoletas(s)
       \/ GenTerminar(s)

SpecGeneracion == InitGeneracion /\ [][NextGeneracion]_vars

\* ------------------------------------------------ bulk WhatsApp sending
\* iniciar_envio_masivo_async in two requests, and the thread each starts
\* (_ejecutar_envio_en_background), statement by statement. In this
\* specification movimientos holds the rows of log_envio_masivo and pago_boletas
\* the messages the gateway accepted, as (log_id, boleta_id).

\* the bills of the period that can be sent, in the order of the preview
Enviables == [i \in 1..MaxEnviables |-> i]

\* what a send can come to: accepted and registered, accepted and then the
\* registration raises, refused with 429, another MensajesError, an exception
\* before the send (the PDF)
Resultados == {"enviado", "sin_registro", "limite", "error_mensajes", "excepcion"}

\* hay_proceso_en_curso: SELECT ... FROM log_envio_masivo WHERE estado = 'iniciado'
HayProcesoEnCurso(log) == \E i \in 1..Len(log) : log[i].estado = "iniciado"

\* a request that has not arrived
SesionEnvioLibre ==
    [pc |-> "libre", log_id |-> 0, pendientes |-> <<>>,
     enviadas_exitosas |-> 0, enviadas_fallidas |-> 0, limite |-> FALSE]

InitEnvio ==
    /\ boletas = <<>>
    /\ pagos = <<>>
    /\ pago_boletas = <<>>
    /\ saldo = 0
    /\ movimientos = <<>>
    /\ ultimo = Ultimo("inicio", 0, TRUE, FALSE, FALSE)
    /\ sesiones = [s \in Sesiones |-> SesionEnvioLibre]

\* the turn that goes on to the next bill after a 429
PasoEnvioSigueTrasLimite(hilo, resultado) ==
    [hilo EXCEPT
        !.pendientes = Tail(@),
        !.enviadas_exitosas = IF resultado = "enviado" THEN @ + 1 ELSE @,
        !.enviadas_fallidas = IF resultado = "enviado" THEN @ ELSE @ + 1,
        !.limite = @ \/ resultado = "limite"]

\* one turn of "for i, boleta in enumerate(boletas_enviables)": the counters,
\* and the return on 'Limite de mensajes excedido'
PasoEnvio(hilo, resultado) ==
    [hilo EXCEPT
        !.pc = IF resultado = "limite" THEN "fin" ELSE @,
        !.pendientes = Tail(@),
        !.enviadas_exitosas = IF resultado = "enviado" THEN @ + 1 ELSE @,
        !.enviadas_fallidas = IF resultado = "enviado" THEN @ ELSE @ + 1,
        !.limite = @ \/ resultado = "limite"]

\* proceso = hay_proceso_en_curso(); if proceso: raise ValueError
EnvioVerificar(s) ==
    /\ sesiones[s].pc = "libre"
    /\ sesiones' = [sesiones EXCEPT ![s].pc =
                       IF HayProcesoEnCurso(movimientos) THEN "rechazado" ELSE "crear"]
    /\ UNCHANGED <<boletas, pagos, pago_boletas, saldo, movimientos, ultimo>>

\* crear_log_envio_masivo (INSERT ... 'iniciado', committed) and thread.start()
EnvioCrearLog(s) ==
    /\ sesiones[s].pc = "crear"
    /\ movimientos' = Append(movimientos,
                             [estado |-> "iniciado", enviadas_exitosas |-> 0,
                              enviadas_fallidas |-> 0])
    /\ sesiones' = [sesiones EXCEPT ![s].pc = "hilo",
                                    ![s].log_id = Len(movimientos) + 1]
    /\ UNCHANGED <<boletas, pagos, pago_boletas, saldo, ultimo>>

\* the thread up to the loop: the preview and the first update of the log; an
\* exception here goes to the outer handler
EnvioPreparar(s) ==
    /\ sesiones[s].pc = "hilo"
    /\ \E falla \in BOOLEAN :
          sesiones' = [sesiones EXCEPT
                         ![s].pc = IF falla THEN "error" ELSE "bucle",
                         ![s].pendientes = IF falla THEN <<>> ELSE Enviables]
    /\ UNCHANGED <<boletas, pagos, pago_boletas, saldo, movimientos, ultimo>>

\* one bill of the loop: the PDF, the send, the registration, the log
EnvioEnviar(s) ==
    /\ sesiones[s].pc = "bucle"
    /\ sesiones[s].pendientes # <<>>
    /\ \E resultado \in Resultados :
          LET hilo == PasoEnvio(sesiones[s], resultado)
              n == sesiones[s].log_id
          IN /\ sesiones' = [sesiones EXCEPT ![s] = hilo]
             /\ pago_boletas' =
                   IF resultado \in {"enviado", "sin_registro"}
                   THEN Append(pago_boletas,
                               [log_id |-> n, boleta_id |-> Head(sesiones[s].pendientes)])
                   ELSE pago_boletas
             /\ movimientos' =
                   IF resultado = "limite"
                   THEN [movimientos EXCEPT
                            ![n].estado = "interrumpido",
                            ![n].enviadas_exitosas = hilo.enviadas_exitosas,
                            ![n].enviadas_fallidas = hilo.enviadas_fallidas]
                   ELSE IF resultado = "enviado"
                   THEN [movimientos EXCEPT
                            ![n].enviadas_exitosas = hilo.enviadas_exitosas,
                            ![n].enviadas_fallidas = hilo.enviadas_fallidas]
                   ELSE movimientos
    /\ UNCHANGED <<boletas, pagos, saldo, ultimo>>

\* after the loop: estado = 'completado'
EnvioCompletar(s) ==
    /\ sesiones[s].pc = "bucle"
    /\ sesiones[s].pendientes = <<>>
    /\ movimientos' = [movimientos EXCEPT
                          ![sesiones[s].log_id].estado = "completado",
                          ![sesiones[s].log_id].enviadas_exitosas = sesiones[s].enviadas_exitosas,
                          ![sesiones[s].log_id].enviadas_fallidas = sesiones[s].enviadas_fallidas]
    /\ sesiones' = [sesiones EXCEPT ![s].pc = "fin"]
    /\ UNCHANGED <<boletas, pagos, pago_boletas, saldo, ultimo>>

\* the outer "except Exception": estado = 'error'
EnvioError(s) ==
    /\ sesiones[s].pc = "error"
    /\ movimientos' = [movimientos EXCEPT ![sesiones[s].log_id].estado = "error"]
    /\ sesiones' = [sesiones EXCEPT ![s].pc = "fin"]
    /\ UNCHANGED <<boletas, pagos, pago_boletas, saldo, ultimo>>

\* the steps of the thread
Hilo(s) == EnvioPreparar(s) \/ EnvioEnviar(s) \/ EnvioCompletar(s) \/ EnvioError(s)

NextEnvio == \E s \in Sesiones : EnvioVerificar(s) \/ EnvioCrearLog(s) \/ Hilo(s)

SpecEnvio == InitEnvio /\ [][NextEnvio]_vars

\* a thread that was started keeps running while the process does
SpecEnvioJusto == SpecEnvio /\ \A s \in Sesiones : WF_vars(Hilo(s))

\* ------------------------------------------------------------ properties
Terminal(p) == p.estado \in {"aprobado", "rechazado"}

TablasSinCambio == UNCHANGED <<boletas, pagos, pago_boletas, saldo, movimientos>>

\* the bills a payment holds an allocation on
BoletasDe(pbs, pago_id) ==
    {pbs[i].boleta_id : i \in {j \in 1..Len(pbs) : pbs[j].pago_id = pago_id}}

\* C2: every bill keeps monto_pagado + saldo_pendiente = total and a
\* saldo_pendiente that is never negative, whatever sequence of submit, direct
\* payment, approve, reject and use-credit ran
C2_BoletaCuadraYNoNegativa ==
    \A b \in DOMAIN boletas :
        /\ boletas[b].monto_pagado + boletas[b].saldo_pendiente = boletas[b].total
        /\ boletas[b].saldo_pendiente >= 0

\* C3: aprobar_pago or rechazar_pago on a payment that is already approved or
\* rejected returns failure and leaves every table as it was; a terminal
\* payment never changes state again
C3_TerminalEsDefinitivo ==
    [][/\ ( /\ ultimo'.op \in {"aprobar_pago", "rechazar_pago"}
            /\ ultimo'.pago_id \in 1..Len(pagos)
            /\ Terminal(pagos[ultimo'.pago_id]) )
          => (~ultimo'.ok /\ TablasSinCambio)
       /\ \A p \in 1..Len(pagos) :
             Terminal(pagos[p]) => pagos'[p].estado = pagos[p].estado]_vars

\* a second aprobar_pago on a submitted payment that was approved and holds an
\* allocation and an overflow has been refused
C3_Witness ==
    /\ ultimo.op = "aprobar_pago"
    /\ ~ultimo.ok
    /\ ultimo.pago_id \in 1..Len(pagos)
    /\ pagos[ultimo.pago_id].estado = "aprobado"
    /\ pagos[ultimo.pago_id].comprobante_path # NULL
    /\ pagos[ultimo.pago_id].monto_a_favor > 0
    /\ BoletasDe(pago_boletas, ultimo.pago_id) # {}

RECURSIVE SumaMontos(_, _)
SumaMontos(movs, n) == IF n = 0 THEN 0 ELSE movs[n].monto + SumaMontos(movs, n - 1)

\* C5: the materialized balance equals the sum of the movements' amounts, and
\* every movement's saldo_nuevo is the running sum up to it
C5_SaldoEsSumaDeMovimientos ==
    /\ saldo = SumaMontos(movimientos, Len(movimientos))
    /\ \A i \in 1..Len(movimientos) :
          /\ movimientos[i].saldo_nuevo = SumaMontos(movimientos, i)
          /\ movimientos[i].saldo_anterior = SumaMontos(movimientos, i - 1)

\* an overflow credit, a debit by use-credit and an admin adjustment are all
\* in the log
C5_Witness ==
    /\ \E i \in 1..Len(movimientos) : movimientos[i].origen = "excedente_pago"
    /\ \E i \in 1..Len(movimientos) : movimientos[i].origen = "aplicacion_boleta"
    /\ \E i \in 1..Len(movimientos) : movimientos[i].origen = "ajuste_admin"

\* C6: a successful rechazar_pago writes no movement, keeps the balance and
\* every bill's money fields; a bill of the payment that is in review and held
\* by no other payment in review goes back to pending with its proof cleared,
\* every other bill is untouched; the payment is rejected with reason and
\* processor, the other payments and the allocations are untouched
C6_RechazoSoloRevierteMarcas ==
    [][(ultimo'.op = "rechazar_pago" /\ ultimo'.ok) =>
        LET p == ultimo'.pago_id
            suyas == BoletasDe(pago_boletas, p)
            libres == {b \in suyas \cap DOMAIN boletas :
                          /\ boletas[b].pagada = 1
                          /\ \A q \in 1..Len(pagos) :
                                (q # p /\ pagos[q].estado = "en_revision")
                                   => b \notin BoletasDe(pago_boletas, q)}
        IN /\ movimientos' = movimientos
           /\ saldo' = saldo
           /\ pago_boletas' = pago_boletas
           /\ \A b \in DOMAIN boletas :
                 IF b \in libres
                 THEN boletas'[b] = [boletas[b] EXCEPT !.pagada = 0,
                                                       !.comprobante_path = NULL]
                 ELSE boletas'[b] = boletas[b]
           /\ pagos[p].estado = "en_revision"
           /\ pagos' = [pagos EXCEPT ![p].estado = "rechazado",
                                     ![p].fecha_procesamiento = Hoy,
                                     ![p].motivo_rechazo = pagos'[p].motivo_rechazo,
                                     ![p].procesado_por = pagos'[p].procesado_por]
           /\ pagos'[p].motivo_rechazo \in Motivos
           /\ pagos'[p].procesado_por \in Usuarios]_vars

\* a payment submitted for two bills with one proof has been rejected and both
\* bills are pending again without proof
C6_Witness ==
    /\ ultimo.op = "rechazar_pago"
    /\ ultimo.ok
    /\ Cardinality(BoletasDe(pago_boletas, ultimo.pago_id)) = 2
    /\ pagos[ultimo.pago_id].comprobante_path # NULL
    /\ \A b \in BoletasDe(pago_boletas, ultimo.pago_id) :
          boletas[b].pagada = 0 /\ boletas[b].comprobante_path = NULL

Creadoras == {"registrar_pago", "registrar_pago_directo", "usar_saldo_en_boletas"}

\* C9 as stated: every payment row has monto_aplicado + monto_a_favor <= monto_total
C9_AplicadoMasFavorDentroDelTotal ==
    \A p \in 1..Len(pagos) :
        pagos[p].monto_aplicado + pagos[p].monto_a_favor <= pagos[p].monto_total

\* C9 amended: the payment a creating operation commits has monto_aplicado +
\* monto_a_favor <= max(0, monto_total + the credit balance the operation read
\* for use), and = max(0, monto_total) when it uses no credit; no later operation
\* changes the three amounts
C9_AplicadoMasFavorDentroDeTotalMasSaldo ==
    [][/\ (ultimo'.op \in Creadoras /\ ultimo'.ok) =>
            LET p == pagos'[ultimo'.pago_id]
            IN /\ Len(pagos') = Len(pagos) + 1
               /\ ultimo'.pago_id = Len(pagos')
               /\ IF ultimo'.usar_saldo
                  THEN p.monto_aplicado + p.monto_a_favor
                          <= Max(0, p.monto_total + saldo)
                  ELSE p.monto_aplicado + p.monto_a_favor = Max(0, p.monto_total)
       /\ \A q \in 1..Len(pagos) :
             /\ pagos'[q].monto_total = pagos[q].monto_total
             /\ pagos'[q].monto_aplicado = pagos[q].monto_aplicado
             /\ pagos'[q].monto_a_favor = pagos[q].monto_a_favor]_vars

\* usar_saldo_en_boletas has committed a payment that applied credit to a bill
C9_Witness ==
    /\ ultimo.op = "usar_saldo_en_boletas"
    /\ ultimo.ok
    /\ pagos[ultimo.pago_id].monto_aplicado > pagos[ultimo.pago_id].monto_total

RECURSIVE SumaAplicado(_, _)
SumaAplicado(detalles, n) ==
    IF n = 0 THEN 0 ELSE detalles[n].monto_aplicado + SumaAplicado(detalles, n - 1)

HuboAsignacion == ultimo.op \in {"_aplicar_pago_a_boletas", "registrar_pago_directo"}

\* C1: every call of the allocation, in _aplicar_pago_a_boletas and in the loop
\* of registrar_pago_directo, returns monto_aplicado + saldo_generado = amount +
\* credit to use, where monto_aplicado is the sum of the per-bill amounts
C1_AsignacionConserva ==
    HuboAsignacion =>
        /\ ultimo.monto_aplicado + ultimo.saldo_generado = ultimo.monto + ultimo.credito
        /\ ultimo.monto_aplicado = SumaAplicado(ultimo.detalles, Len(ultimo.detalles))

\* an amount plus credit that pays two bills and still overflows
C1_Witness ==
    /\ ultimo.op = "_aplicar_pago_a_boletas"
    /\ ultimo.credito > 0
    /\ Len(ultimo.detalles) >= 2
    /\ ultimo.saldo_generado > 0

\* what the call gave bill b
Recibido(b) ==
    LET I == {i \in 1..Len(ultimo.detalles) : ultimo.detalles[i].boleta_id = b}
    IN IF I = {} THEN 0 ELSE ultimo.detalles[CHOOSE i \in I : TRUE].monto_aplicado

Anterior(a, b) ==
    \/ boletas[a].periodo_anio < boletas[b].periodo_anio
    \/ /\ boletas[a].periodo_anio = boletas[b].periodo_anio
       /\ boletas[a].periodo_mes < boletas[b].periodo_mes

C7_FallaNoDejaNada == [][ultimo'.falla => TablasSinCambio]_vars

\* the overflow credits written for payment p
Excedentes(p) ==
    {i \in 1..Len(movimientos) :
        movimientos[i].pago_id = p /\ movimientos[i].origen = "excedente_pago"}

\* what the allocations of payments in state `estado` give bill b
RECURSIVE SumaAplicaciones(_, _, _)
SumaAplicaciones(b, estados, n) ==
    IF n = 0 THEN 0
    ELSE (IF /\ pago_boletas[n].boleta_id = b
             /\ pagos[pago_boletas[n].pago_id].estado \in estados
          THEN pago_boletas[n].monto_aplicado ELSE 0)
         + SumaAplicaciones(b, estados, n - 1)

\* C8: of two aprobar_pago calls that run at the same time on one payment at
\* most one succeeds, every bill is incremented once by its allocation and the
\* overflow is credited at most once
C8_SoloUnaAprueba ==
    /\ \A s, t \in Sesiones :
          (s # t /\ sesiones[s].pc = "fin" /\ sesiones[t].pc = "fin"
                 /\ sesiones[s].pago_id = sesiones[t].pago_id)
             => ~(sesiones[s].ok /\ sesiones[t].ok)
    /\ \A p \in 1..Len(pagos) : Cardinality(Excedentes(p)) <= 1
    /\ \A b \in DOMAIN boletas :
          boletas[b].monto_pagado
             <= SumaAplicaciones(b, {"aprobado"}, Len(pago_boletas))

\* C10: every bill's monto_pagado is the sum of monto_aplicado over its
\* allocations of approved payments; allocations of payments in review, pending
\* or rejected add nothing
C10_PagadoEsSumaDeAprobadas ==
    \A b \in DOMAIN boletas :
        boletas[b].monto_pagado = SumaAplicaciones(b, {"aprobado"}, Len(pago_boletas))

\* C11: through submit, direct payment, approve, reject, use-credit and
\* desmarcar_boleta_pagada, a bill has pagada = 2 exactly when its
\* saldo_pendiente <= 0
C11_PagadaSiiSinSaldo ==
    \A b \in DOMAIN boletas :
        (boletas[b].pagada = 2) <=> (boletas[b].saldo_pendiente <= 0)

\* the rows s gained in the step
Nuevas(antes, despues) == SubSeq(despues, Len(antes) + 1, Len(despues))

\* C12: usar_saldo_en_boletas with a balance <= 0 fails and leaves every table
\* as it was; otherwise it appends one approved payment, gives the listed bills
\* that owe something min(remaining credit, saldo_pendiente) in ascending
\* period, writes one negative movement per bill it touches and lowers the
\* balance by the total applied
C12_UsarSaldoAplicaYDebita ==
    [][ultimo'.op = "usar_saldo_en_boletas" =>
        IF saldo <= 0 THEN ~ultimo'.ok /\ TablasSinCambio
        ELSE LET d == Nuevas(pago_boletas, pago_boletas')
                 m == Nuevas(movimientos, movimientos')
                 p == Len(pagos) + 1
                 elegibles == {b \in ultimo'.ids : boletas[b].saldo_pendiente > 0}
                 tocadas == {d[i].boleta_id : i \in 1..Len(d)}
                 usado == SumaAplicado(d, Len(d))
             IN /\ ultimo'.ok
                /\ Len(pagos') = p
                /\ SubSeq(pagos', 1, Len(pagos)) = pagos
                /\ pagos'[p].estado = "aprobado"
                /\ pagos'[p].monto_aplicado = usado
                /\ SubSeq(pago_boletas', 1, Len(pago_boletas)) = pago_boletas
                /\ SubSeq(movimientos', 1, Len(movimientos)) = movimientos
                /\ tocadas \subseteq elegibles
                /\ \A i, j \in 1..Len(d) :
                      i < j => /\ d[i].boleta_id # d[j].boleta_id
                               /\ ~Anterior(d[j].boleta_id, d[i].boleta_id)
                /\ \A i \in 1..Len(d) :
                      /\ d[i].pago_id = p
                      /\ d[i].monto_aplicado =
                            Min(saldo - SumaAplicado(d, i - 1),
                                boletas[d[i].boleta_id].saldo_pendiente)
                      /\ d[i].monto_aplicado > 0
                /\ \A b \in elegibles \ tocadas : usado = saldo
                /\ \A b \in elegibles \cap tocadas :
                      \A a \in elegibles :
                         Anterior(a, b) =>
                            /\ a \in tocadas
                            /\ boletas'[a].saldo_pendiente = 0
                /\ Len(m) = Len(d)
                /\ \A i \in 1..Len(m) :
                      /\ m[i].monto = 0 - d[i].monto_aplicado
                      /\ m[i].monto < 0
                      /\ m[i].tipo = "egreso"
                      /\ m[i].boleta_id = d[i].boleta_id
                      /\ m[i].pago_id = p
                /\ saldo' = saldo - usado
                /\ \A b \in DOMAIN boletas :
                      LET dado == IF b \in tocadas
                                  THEN d[CHOOSE i \in 1..Len(d) : d[i].boleta_id = b].monto_aplicado
                                  ELSE 0
                      IN /\ boletas'[b].monto_pagado = boletas[b].monto_pagado + dado
                         /\ boletas'[b].saldo_pendiente = boletas[b].saldo_pendiente - dado]_vars

\* a credit of 3 has settled the bill of the earliest period, which owed 2, and
\* paid 1 of the 2 the next bill owed; the third listed bill got nothing
C12_Witness ==
    /\ ultimo.op = "usar_saldo_en_boletas"
    /\ ultimo.ok
    /\ ultimo.ids = BoletasAlloc
    /\ Len(pago_boletas) = 2
    /\ Len(movimientos) = 3
    /\ movimientos[2].monto = 0 - 2
    /\ movimientos[3].monto = 0 - 1
    /\ saldo = 0
    /\ \E b \in BoletasAlloc : boletas[b].pagada = 2 /\ boletas[b].monto_pagado = 2
    /\ \E b \in BoletasAlloc : boletas[b].pagada = 0 /\ boletas[b].monto_pagado = 1
    /\ \E b \in BoletasAlloc : boletas[b].monto_pagado = 0 /\ boletas[b].saldo_pendiente = 2

\* C13: ajustar_saldo_cliente with balance + amount < 0 returns failure and
\* leaves balance and movement log as they were; otherwise it appends one
\* movement of origin ajuste_admin and the balance becomes balance + amount; the
\* balance is never negative after an adjustment
C13_AjusteNuncaNegativo ==
    [][ultimo'.op = "ajustar_saldo_cliente" =>
        /\ IF saldo + ultimo'.monto < 0
           THEN /\ ~ultimo'.ok
                /\ saldo' = saldo
                /\ movimientos' = movimientos
           ELSE /\ ultimo'.ok
                /\ Len(movimientos') = Len(movimientos) + 1
                /\ SubSeq(movimientos', 1, Len(movimientos)) = movimientos
                /\ movimientos'[Len(movimientos')].origen = "ajuste_admin"
                /\ movimientos'[Len(movimientos')].monto = ultimo'.monto
                /\ saldo' = saldo + ultimo'.monto
        /\ saldo' >= 0
        /\ UNCHANGED <<boletas, pagos, pago_boletas>>]_vars

\* after a credit of 2 and a debit of 1, a debit of 2 has been refused
C13_Witness ==
    /\ ultimo.op = "ajustar_saldo_cliente"
    /\ ~ultimo.ok
    /\ ultimo.monto = 0 - 2
    /\ Len(movimientos) = 2
    /\ movimientos[1].monto = 2
    /\ movimientos[2].monto = 0 - 1
    /\ saldo = 1

\* the credit that came in: the sum of the positive movements
RECURSIVE Abonos(_, _)
Abonos(movs, n) ==
    IF n = 0 THEN 0
    ELSE (IF movs[n].monto > 0 THEN movs[n].monto ELSE 0) + Abonos(movs, n - 1)

\* C14: under every interleaving of use-credit calls and negative adjustments
\* the balance is never negative and the credit applied to bills never exceeds
\* the credit that came in
C14_SaldoNoSeGastaDosVeces ==
    /\ saldo >= 0
    /\ SumaAplicado(pago_boletas, Len(pago_boletas))
          <= Abonos(movimientos, Len(movimientos))

\* C15: registrar_pago_directo appends one payment in state aprobado; every bill
\* it allocates to gets monto_pagado raised and saldo_pendiente lowered by the
\* allocation and becomes settled (2) when the allocation covers all it owed,
\* pending (0) otherwise; a remainder is credited by exactly one movement of
\* that amount; the payment row holds both amounts
C15_DirectoApruebaYAplica ==
    [][ultimo'.op = "registrar_pago_directo" =>
        LET d == Nuevas(pago_boletas, pago_boletas')
            m == Nuevas(movimientos, movimientos')
            p == Len(pagos) + 1
            aplicado == SumaAplicado(d, Len(d))
            resto == Max(0, ultimo'.monto - aplicado)
            elegibles == {b \in ultimo'.ids : boletas[b].saldo_pendiente > 0}
        IN /\ Len(pagos') = p
           /\ SubSeq(pagos', 1, Len(pagos)) = pagos
           /\ pagos'[p].estado = "aprobado"
           /\ pagos'[p].monto_total = ultimo'.monto
           /\ pagos'[p].monto_aplicado = aplicado
           /\ pagos'[p].monto_a_favor = resto
           /\ aplicado <= Max(0, ultimo'.monto)
           /\ SubSeq(pago_boletas', 1, Len(pago_boletas)) = pago_boletas
           /\ \A i \in 1..Len(d) :
                 /\ d[i].pago_id = p
                 /\ d[i].boleta_id \in elegibles
                 /\ d[i].monto_aplicado > 0
                 /\ \A j \in 1..Len(d) : i # j => d[i].boleta_id # d[j].boleta_id
           /\ \A b \in DOMAIN boletas :
                 LET I == {i \in 1..Len(d) : d[i].boleta_id = b}
                 IN IF I = {} THEN boletas'[b] = boletas[b]
                    ELSE LET dado == d[CHOOSE i \in I : TRUE].monto_aplicado
                         IN /\ boletas'[b].monto_pagado = boletas[b].monto_pagado + dado
                            /\ boletas'[b].saldo_pendiente = boletas[b].saldo_pendiente - dado
                            /\ boletas'[b].pagada =
                                  IF dado >= boletas[b].saldo_pendiente THEN 2 ELSE 0
                            /\ boletas'[b].total = boletas[b].total
           /\ resto > 0 => \A b \in elegibles : boletas'[b].saldo_pendiente = 0
           /\ SubSeq(movimientos', 1, Len(movimientos)) = movimientos
           /\ IF resto > 0
              THEN /\ Len(m) = 1
                   /\ m[1].tipo = "ingreso"
                   /\ m[1].origen = "excedente_pago"
                   /\ m[1].monto = resto
                   /\ m[1].pago_id = p
                   /\ saldo' = saldo + resto
              ELSE /\ Len(m) = 0
                   /\ saldo' = saldo]_vars

\* a direct payment of 3 for two bills owing 2 each has settled the earlier
\* one and left the later one pending with 1 paid and 1 owed
C15_Witness ==
    /\ ultimo.op = "registrar_pago_directo"
    /\ ultimo.monto = 3
    /\ Len(pagos) = 1
    /\ pagos[1].estado = "aprobado"
    /\ pagos[1].monto_aplicado = 3
    /\ pagos[1].monto_a_favor = 0
    /\ movimientos = <<>>
    /\ \E a, b \in ultimo.ids :
          /\ Anterior(a, b)
          /\ boletas[a].pagada = 2 /\ boletas[a].monto_pagado = 2
          /\ boletas[a].saldo_pendiente = 0
          /\ boletas[b].pagada = 0 /\ boletas[b].monto_pagado = 1
          /\ boletas[b].saldo_pendiente = 1

\* C16: a payment operation whose listed bills hold none with saldo_pendiente > 0
\* while amount + credit to use > 0 fails and persists nothing: no payment row,
\* no allocation, no movement, and the funds are not turned into credit
C16_SinElegiblesFalla ==
    [][( /\ ultimo'.op \in {"_aplicar_pago_a_boletas", "registrar_pago_directo"}
         /\ \A b \in ultimo'.ids : boletas[b].saldo_pendiente <= 0
         /\ ultimo'.monto + ultimo'.credito > 0 )
       => /\ TablasSinCambio
          /\ ultimo'.saldo_generado = 0]_vars

\* no two rows of the table are of one reading
UnaPorLectura(tabla) ==
    \A i, j \in 1..Len(tabla) : i # j => tabla[i].lectura_id # tabla[j].lectura_id

\* C17: whatever way the issuing operations interleave, the table holds at most
\* one bill per reading, and an issuance for a reading that has a bill fails
\* and creates nothing
C17_UnaBoletaPorLectura ==
    [][/\ UnaPorLectura(boletas')
       /\ \A s \in Sesiones :
             ( /\ sesiones[s].pc = "insertar"
               /\ sesiones'[s].pc = "fin"
               /\ ObtenerBoletaPorLectura(boletas, sesiones[s].lectura_id) )
             => (boletas' = boletas /\ ~sesiones'[s].ok)]_vars

\* n as exactly `ancho` decimal digits
RECURSIVE Potencia10(_)
Potencia10(k) == IF k = 0 THEN 1 ELSE 10 * Potencia10(k - 1)

Cifras(n, ancho) ==
    [i \in 1..ancho |-> Digito((n \div Potencia10(ancho - i)) % 10)]

\* BOL-<year><2-digit month>-<4-digit sequence>
NumeroEsperado(anio, mes, secuencia) ==
    <<"B", "O", "L", "-">> \o Cifras(anio, 4) \o Cifras(mes, 2) \o <<"-">>
        \o Cifras(secuencia, 4)

\* the sequence of row i, read as the number after the last hyphen
Secuencia(tabla, i) == Entero(UltimoSegmento(tabla[i].numero_boleta))

\* the highest sequence among the bills of a period, 0 when it has none
MayorSecuencia(tabla, anio, mes) ==
    LET filas == DelPeriodo(tabla, anio, mes)
    IN IF filas = {} THEN 0
       ELSE Secuencia(tabla, CHOOSE i \in filas :
                                \A j \in filas : Secuencia(tabla, i) >= Secuencia(tabla, j))

NumerosDistintos(tabla) ==
    \A i, j \in 1..Len(tabla) :
        i # j => tabla[i].numero_boleta # tabla[j].numero_boleta

\* what an issuance for reading l gives when it gives what is stated: one row
\* more, with the number of the highest sequence of its period plus one
EmiteLaSiguiente(l) ==
    LET periodo == PeriodoLectura(l)
        siguiente == MayorSecuencia(boletas, periodo[1], periodo[2]) + 1
    IN /\ ultimo'.ok
       /\ Len(boletas') = Len(boletas) + 1
       /\ SubSeq(boletas', 1, Len(boletas)) = boletas
       /\ boletas'[Len(boletas')].lectura_id = l
       /\ boletas'[Len(boletas')].numero_boleta =
             NumeroEsperado(periodo[1], periodo[2], siguiente)
       /\ ultimo'.numero_boleta = boletas'[Len(boletas')].numero_boleta
       /\ NumerosDistintos(boletas')

C19_NumerosConcurrentesDistintos ==
    /\ \A s, t \in Sesiones :
          ( /\ s # t
            /\ sesiones[s].pc = "insertar"
            /\ sesiones[t].pc = "insertar" )
          => sesiones[s].numero_boleta # sesiones[t].numero_boleta
    /\ NumerosDistintos(boletas)

\* C20: calcular_consumo returns the current reading unchanged when there is no
\* prior reading and max(0, current - prior) otherwise; with readings that are
\* not negative the consumption is not negative
C20_ConsumoNoNegativo ==
    ultimo.op = "calcular_consumo" =>
        LET actual == ultimo.lectura_actual
            anterior == ultimo.lectura_anterior
        IN /\ anterior = Ninguna => ultimo.consumo = actual
           /\ anterior # Ninguna =>
                 /\ ultimo.consumo >= 0
                 /\ ultimo.consumo >= actual - anterior[1]
                 /\ ultimo.consumo \in {0, actual - anterior[1]}
           /\ (actual >= 0 /\ (anterior = Ninguna \/ anterior[1] >= 0))
                 => ultimo.consumo >= 0

\* the meter that went back: current 80, prior 95, consumption 0
C20_Witness ==
    /\ ultimo.op = "calcular_consumo"
    /\ ultimo.lectura_actual = 80
    /\ ultimo.lectura_anterior = <<95>>
    /\ ultimo.consumo = 0

\* the bills that rows of pago_boletas name
BoletasConPago(pbs) == {pbs[i].boleta_id : i \in 1..Len(pbs)}

\* C21: a bill that an allocation row names is never deleted, so every row of
\* pago_boletas names a bill that exists
C21_BoletaConPagoNoSeElimina ==
    [][/\ \A b \in DOMAIN boletas : b \in BoletasConPago(pago_boletas) => b \in DOMAIN boletas'
       /\ BoletasConPago(pago_boletas') \subseteq DOMAIN boletas']_vars

\* C22: registrar_pago with a proof document appends the payment in state
\* en_revision and its allocation rows, moves each bill it allocated to that was
\* pending to in review with the proof, and changes nothing else: every bill's
\* monto_pagado and saldo_pendiente, the balance and the movement log stay
C22_SubmitSoloMarca ==
    [][( /\ ultimo'.op = "registrar_pago"
         /\ pagos'[ultimo'.pago_id].comprobante_path # NULL ) =>
        LET p == ultimo'.pago_id
            nuevas == Nuevas(pago_boletas, pago_boletas')
            afectadas == {nuevas[i].boleta_id : i \in 1..Len(nuevas)}
        IN /\ p = Len(pagos) + 1
           /\ SubSeq(pagos', 1, Len(pagos)) = pagos
           /\ Len(pagos') = p
           /\ pagos'[p].estado = "en_revision"
           /\ SubSeq(pago_boletas', 1, Len(pago_boletas)) = pago_boletas
           /\ \A i \in 1..Len(nuevas) : nuevas[i].pago_id = p
           /\ DOMAIN boletas' = DOMAIN boletas
           /\ \A b \in DOMAIN boletas :
                 IF b \in afectadas /\ boletas[b].pagada = 0
                 THEN boletas'[b] = [boletas[b] EXCEPT
                                        !.pagada = 1,
                                        !.comprobante_path = pagos'[p].comprobante_path]
                 ELSE boletas'[b] = boletas[b]
           /\ saldo' = saldo
           /\ movimientos' = movimientos]_vars

\* a submit with proof that used the customer's credit: the payment is in
\* review, a bill it allocated to is in review with the proof and nothing paid,
\* and the credit is still there
C22_Witness ==
    /\ ultimo.op = "registrar_pago"
    /\ ultimo.usar_saldo
    /\ saldo > 0
    /\ pagos[ultimo.pago_id].estado = "en_revision"
    /\ \E b \in BoletasDe(pago_boletas, ultimo.pago_id) :
          /\ boletas[b].pagada = 1
          /\ boletas[b].comprobante_path = pagos[ultimo.pago_id].comprobante_path
          /\ boletas[b].monto_pagado = 0
          /\ boletas[b].saldo_pendiente = boletas[b].total

\* what payment p allocated to bill b
AplicadoA(pbs, p, b) ==
    LET S == {i \in 1..Len(pbs) : pbs[i].pago_id = p /\ pbs[i].boleta_id = b}
    IN IF S = {} THEN 0 ELSE pbs[CHOOSE i \in S : TRUE].monto_aplicado

\* C23: aprobar_pago on a payment in review adds each allocation's amount to the
\* bill's monto_pagado and takes it from saldo_pendiente, sets the bill to 2 when
\* the resulting saldo_pendiente is <= 0 and to 0 otherwise, credits the recorded
\* overflow with one movement if it is > 0, and sets the payment approved with
\* processing date and processor
C23_AprobarAplicaYAbona ==
    [][(ultimo'.op = "aprobar_pago" /\ ultimo'.ok) =>
        LET p == ultimo'.pago_id
            suyas == BoletasDe(pago_boletas, p)
            favor == pagos[p].monto_a_favor
        IN /\ pagos[p].estado = "en_revision"
           /\ DOMAIN boletas' = DOMAIN boletas
           /\ \A b \in DOMAIN boletas :
                 LET m == AplicadoA(pago_boletas, p, b)
                 IN IF b \in suyas
                    THEN boletas'[b] =
                            [boletas[b] EXCEPT
                                !.monto_pagado = @ + m,
                                !.saldo_pendiente = @ - m,
                                !.pagada = IF boletas[b].saldo_pendiente - m <= 0
                                           THEN 2 ELSE 0]
                    ELSE boletas'[b] = boletas[b]
           /\ \A b \in suyas :
                 Cardinality({i \in 1..Len(pago_boletas) :
                     pago_boletas[i].pago_id = p /\ pago_boletas[i].boleta_id = b}) = 1
           /\ pago_boletas' = pago_boletas
           /\ IF favor > 0
              THEN /\ saldo' = saldo + favor
                   /\ movimientos' =
                         Append(movimientos,
                                [tipo |-> "ingreso", origen |-> "excedente_pago",
                                 pago_id |-> p, boleta_id |-> 0, monto |-> favor,
                                 saldo_anterior |-> saldo, saldo_nuevo |-> saldo + favor])
              ELSE saldo' = saldo /\ movimientos' = movimientos
           /\ pagos' = [pagos EXCEPT ![p].estado = "aprobado",
                                     ![p].fecha_procesamiento = Hoy,
                                     ![p].procesado_por = pagos'[p].procesado_por]
           /\ pagos'[p].procesado_por \in Usuarios]_vars

\* an approval that settled one bill and left another partly paid: that one is
\* pending again, and the payment carries processing date and processor
C23_Witness ==
    /\ ultimo.op = "aprobar_pago"
    /\ ultimo.ok
    /\ pagos[ultimo.pago_id].estado = "aprobado"
    /\ pagos[ultimo.pago_id].fecha_procesamiento = Hoy
    /\ pagos[ultimo.pago_id].procesado_por \in Usuarios
    /\ \E b \in BoletasDe(pago_boletas, ultimo.pago_id) :
          boletas[b].pagada = 2 /\ boletas[b].saldo_pendiente = 0
    /\ \E b \in BoletasDe(pago_boletas, ultimo.pago_id) :
          /\ boletas[b].pagada = 0
          /\ boletas[b].monto_pagado > 0
          /\ boletas[b].saldo_pendiente > 0

\* an approval that credited the payment's overflow with one movement
C23_AprobacionConExcedente ==
    /\ ultimo.op = "aprobar_pago"
    /\ ultimo.ok
    /\ pagos[ultimo.pago_id].monto_a_favor > 0
    /\ Cardinality({i \in 1..Len(movimientos) :
                       movimientos[i].pago_id = ultimo.pago_id}) = 1
    /\ movimientos[Len(movimientos)].monto = pagos[ultimo.pago_id].monto_a_favor
    /\ movimientos[Len(movimientos)].origen = "excedente_pago"

\* the payments in review, other than p, that hold an allocation on bill b
OtrosQueRetienen(ps, pbs, b, p) ==
    {q \in 1..Len(ps) : /\ q # p
                        /\ ps[q].estado = "en_revision"
                        /\ b \in BoletasDe(pbs, q)}

\* C24: when two payments in review hold an allocation on one bill, rejecting
\* one of them leaves the bill as it was, in review with its proof; a bill goes
\* when no other payment in review holds it, the bill in review goes back to
\* pending with its proof cleared; and that happens in no other step
C24_RechazoRespetaOtrosPagos ==
    [][/\ (ultimo'.op = "rechazar_pago" /\ ultimo'.ok) =>
             \A b \in BoletasDe(pago_boletas, ultimo'.pago_id) \cap DOMAIN boletas :
                IF OtrosQueRetienen(pagos, pago_boletas, b, ultimo'.pago_id) # {}
                THEN boletas'[b] = boletas[b]
                ELSE boletas[b].pagada = 1 =>
                        /\ boletas'[b].pagada = 0
                        /\ boletas'[b].comprobante_path = NULL
       /\ \A b \in DOMAIN boletas \cap DOMAIN boletas' :
             ( /\ boletas[b].pagada = 1
               /\ boletas[b].comprobante_path # NULL
               /\ boletas'[b].pagada = 0
               /\ boletas'[b].comprobante_path = NULL )
             => /\ ultimo'.op = "rechazar_pago"
                /\ ultimo'.ok
                /\ b \in BoletasDe(pago_boletas, ultimo'.pago_id)
                /\ OtrosQueRetienen(pagos', pago_boletas', b, 0) = {}]_vars

\* one of two payments in review on the same bill has been rejected: the bill
\* is still in review with its proof
C24_Witness ==
    /\ ultimo.op = "rechazar_pago"
    /\ ultimo.ok
    /\ pagos[ultimo.pago_id].estado = "rechazado"
    /\ \E b \in BoletasDe(pago_boletas, ultimo.pago_id) :
          /\ OtrosQueRetienen(pagos, pago_boletas, b, ultimo.pago_id) # {}
          /\ boletas[b].pagada = 1
          /\ boletas[b].comprobante_path \in Comprobantes

\* both payments in review on the same bill have been rejected: the bill is
\* pending again and its proof is cleared
C24_UltimoRechazo ==
    /\ ultimo.op = "rechazar_pago"
    /\ ultimo.ok
    /\ \A p \in PagoIds : p \in 1..Len(pagos) /\ pagos[p].estado = "rechazado"
    /\ \E b \in BoletasDe(pago_boletas, 1) \cap BoletasDe(pago_boletas, 2) :
          boletas[b].pagada = 0 /\ boletas[b].comprobante_path = NULL

\* C25: after two calls of registrar_movimiento_saldo that ran at the same time
\* the balance is the balance before plus both amounts, and the snapshots of the
\* two movements chain: the saldo_nuevo of one is the saldo_anterior of the other
C25_MovimientosConcurrentesSeSuman ==
    (\A s \in Sesiones : sesiones[s].pc = "fin") =>
        LET n == Len(movimientos)
        IN /\ saldo = SumaMontos(movimientos, n)
           /\ \/ movimientos[n].saldo_anterior = movimientos[n - 1].saldo_nuevo
              \/ movimientos[n - 1].saldo_anterior = movimientos[n].saldo_nuevo

RECURSIVE SumaPagado(_, _)
SumaPagado(bs, S) ==
    IF S = {} THEN 0
    ELSE LET b == CHOOSE x \in S : TRUE
         IN bs[b].monto_pagado + SumaPagado(bs, S \ {b})

RECURSIVE SumaAprobados(_, _)
SumaAprobados(ps, n) ==
    IF n = 0 THEN 0
    ELSE (IF ps[n].estado = "aprobado" THEN ps[n].monto_total ELSE 0)
         + SumaAprobados(ps, n - 1)

RECURSIVE SumaAjustes(_, _)
SumaAjustes(movs, n) ==
    IF n = 0 THEN 0
    ELSE (IF movs[n].origen = "ajuste_admin" THEN movs[n].monto ELSE 0)
         + SumaAjustes(movs, n - 1)

\* C26: after any sequence of submit, approve, reject, direct payment, use-credit
\* and admin adjustment, what the bills hold as paid plus the credit balance is
\* what the approved payments brought in plus the net of the admin adjustments
C26_DineroSeConserva ==
    SumaPagado(boletas, DOMAIN boletas) + saldo
        = SumaAprobados(pagos, Len(pagos)) + SumaAjustes(movimientos, Len(movimientos))

\* credit that funded a submitted payment is still in the balance after the
\* approval: the bill is paid with it and the customer keeps it
C26_CreditoNoDebitado ==
    /\ ultimo.op = "aprobar_pago"
    /\ ultimo.ok
    /\ \A p \in 1..Len(pagos) : pagos[p].monto_total >= 0
    /\ pagos[ultimo.pago_id].monto_aplicado > pagos[ultimo.pago_id].monto_total
    /\ SumaPagado(boletas, DOMAIN boletas) + saldo
          > SumaAprobados(pagos, Len(pagos)) + SumaAjustes(movimientos, Len(movimientos))

\* C27: whenever registrar_pago marks a bill in review, a payment in state
\* en_revision holds an allocation on that bill, also when registrar_pago is
\* called without a proof document
C27_EnRevisionTienePagoEnRevision ==
    [][ultimo'.op = "registrar_pago" =>
        \A b \in DOMAIN boletas :
            (boletas[b].pagada = 0 /\ boletas'[b].pagada = 1) =>
                \E p \in 1..Len(pagos') :
                    /\ pagos'[p].estado = "en_revision"
                    /\ b \in BoletasDe(pago_boletas', p)]_vars

\* a bill in review that only a payment in state pendiente holds: neither
\* aprobar_pago nor rechazar_pago accepts that payment
C27_BoletaVarada ==
    \E b \in DOMAIN boletas :
        /\ boletas[b].pagada = 1
        /\ \A p \in 1..Len(pagos) :
              b \in BoletasDe(pago_boletas, p) => pagos[p].estado = "pendiente"
        /\ Len(pagos) = Cardinality(PagoIds)
        /\ \A p \in PagoIds : ~AprobarPago(DB, p, "admin").ok
        /\ \A p \in PagoIds : ~RechazarPago(DB, p, "comprobante ilegible", "admin").ok

\* the automatically created readings of meter m
Automaticas(lecturas, m) ==
    {i \in 1..Len(lecturas) : /\ lecturas[i].medidor_id = m
                              /\ lecturas[i].foto_nombre = "generacion_automatica"}

\* C28: after any number of runs of ejecutar_generacion, a scheduled run
\* overlapping with a manual one included, every meter has at most one
\* automatically created reading for the period, and a run creates a reading
\* only for a meter that has none
C28_UnaLecturaAutomaticaPorMedidor ==
    [][/\ \A m \in Medidores : Cardinality(Automaticas(movimientos', m)) <= 1
       /\ \A i \in (Len(movimientos) + 1)..Len(movimientos') :
             ~\E j \in 1..Len(movimientos) :
                 movimientos[j].medidor_id = movimientos'[i].medidor_id]_vars

\* runs of one session, one after the other, create at most one reading per
\* meter and none for a meter that has one
C28_EjecucionesSeguidasNoDuplican ==
    (\E t \in Sesiones : sesiones[t].ejecuciones = 0) =>
        \A m \in Medidores :
            Cardinality({i \in 1..Len(movimientos) : movimientos[i].medidor_id = m}) <= 1

\* C29: at most one bulk send run is in state 'iniciado' at any time, also when
\* two start requests arrive at the same time
C29_UnSoloEnvioIniciado ==
    Cardinality({i \in 1..Len(movimientos) : movimientos[i].estado = "iniciado"}) <= 1

\* a request that arrives while a run is 'iniciado' is refused and creates no
\* run: the rows of the log are as many as the requests that were not refused
C29_SegundaSolicitudRechazada ==
    \A s \in Sesiones :
        sesiones[s].pc = "rechazado" =>
            /\ sesiones[s].log_id = 0
            /\ Len(movimientos) >= 1


\* the states in which a run of the log has ended
Finales == {"completado", "interrumpido", "error"}

\* the messages of run n that the gateway accepted
EnviosDe(envios, n) == {i \in 1..Len(envios) : envios[i].log_id = n}

\* C30: every run that was started leaves 'iniciado' and ends in one of
\* 'completado', 'interrumpido' and 'error', which it then keeps; a 429 from the
\* gateway ends the run as 'interrumpido' in the same step, and no bill of that
\* run is sent after it
C30_EnvioTermina ==
    /\ \A n \in Sesiones :
          [](Len(movimientos) >= n =>
                <>(Len(movimientos) >= n /\ movimientos[n].estado \in Finales))
    /\ [][\A n \in 1..Len(movimientos) :
             movimientos[n].estado \in Finales =>
                 /\ Len(movimientos') >= n
                 /\ movimientos'[n].estado = movimientos[n].estado]_vars
    /\ [][\A s \in Sesiones :
             /\ (~sesiones[s].limite /\ sesiones'[s].limite) =>
                   /\ movimientos'[sesiones[s].log_id].estado = "interrumpido"
                   /\ sesiones'[s].pc = "fin"
             /\ sesiones[s].limite =>
                   /\ EnviosDe(pago_boletas', sesiones[s].log_id)
                         = EnviosDe(pago_boletas, sesiones[s].log_id)
                   /\ sesiones'[s] = sesiones[s]]_vars

\* a run interrupted by the limit after one bill was sent and with a bill left
C30_Witness ==
    \E s \in Sesiones :
        /\ sesiones[s].limite
        /\ sesiones[s].enviadas_exitosas >= 1
        /\ sesiones[s].pendientes # <<>>
        /\ movimientos[sesiones[s].log_id].estado = "interrumpido"
        /\ EnviosDe(pago_boletas, sesiones[s].log_id) # {}

====
